---- MODULE Spec2Model ----
(***************************************************************************)
(* Model of fedora-coreos-cincinnati: the graph assembler                  *)
(* (dumnati/src/graph.rs), the policy filters (commons/src/policy.rs) and  *)
(* the scraper actors (fcos-graph-builder/src/scraper.rs,                  *)
(* dumnati/src/scraper.rs) and the HTTP handlers of /v1/graph              *)
(* (fcos-graph-builder/src/main.rs, dumnati/src/main.rs,                   *)
(* fcos-policy-engine/src/main.rs, commons/src/web.rs) and the patching of *)
(* digests (fcos-graph-builder/src/workaround_issue_2066.rs).              *)
(*                                                                         *)
(* Rust values are modelled as follows: a String is a TLA+ string, a Vec   *)
(* is a sequence, a HashMap<String, String> is a function whose domain is  *)
(* the set of its keys, Option<T> is None or Some(x), Result<T, E> is      *)
(* Ok(x) or Err(e).  Vec indices are 0-based in the code and the edges     *)
(* keep the 0-based u64 indices; sequence positions are 1-based.           *)
(***************************************************************************)
EXTENDS Integers, Sequences, FiniteSets, TLC

VARIABLES
    \* ---- graph assembly and policy filters (pure functions) ----
    releases,       \* Vec<metadata::Release> handed to from_metadata
    updates,        \* metadata::UpdatesJSON handed to from_metadata
    cur,            \* the Graph value being transformed (None before assembly)
    op,             \* the last operation applied to cur, with its arguments
    \* ---- the scraper actors ----
    program,        \* the binary that runs: "fcos-graph-builder" or "dumnati"
    started,        \* per scraper: Actor::started has run
    ticks,          \* per scraper: RefreshTick messages waiting in the mailbox
    timers,         \* per scraper: RefreshTick messages armed by notify_later
    inflight,       \* per scraper: the refresh futures spawned and not yet resolved
    graphs,         \* fcos-graph-builder Scraper.graphs: arch -> Bytes
    oci_graphs,     \* fcos-graph-builder Scraper.oci_graphs: arch -> Bytes
    graph,          \* dumnati Scraper.graph
    UPSTREAM_SCRAPES,       \* counter, by label values
    CACHED_GRAPH_REQUESTS,  \* counter, by label values
    reply,          \* the response to a GetCachedGraph its sender has not read yet
    lastGood,       \* per scraper: the documents of its latest successful refresh
    lastOutcome,    \* per scraper: how its latest finished refresh ended
    LAST_REFRESH,           \* gauge, by label values
    GRAPH_FINAL_EDGES,      \* gauge, by label values
    GRAPH_FINAL_RELEASES,   \* gauge, by label values
    clock,          \* chrono::Utc::now().timestamp()
    version_digests_map,    \* fcos-graph-builder DigestsMapper.version_digests_map
    \* ---- the HTTP handlers of /v1/graph ----
    service,        \* the service answering: its binary, scope_filter and scrapers
    handlers,       \* per worker thread: the request it handles and where it is
    population,     \* AppState.population, the bits set in the Bloom filter
    V1_GRAPH_INCOMING_REQS, \* counter
    UNIQUE_IDS,             \* counter
    ROLLOUT_WARINESS        \* histogram: the values observed, in order

gvars == <<releases, updates, cur, op>>
mvars == <<LAST_REFRESH, GRAPH_FINAL_EDGES, GRAPH_FINAL_RELEASES, clock,
           version_digests_map>>
svars == <<program, started, ticks, timers, inflight, graphs, oci_graphs, graph,
           UPSTREAM_SCRAPES, CACHED_GRAPH_REQUESTS, reply, lastGood, lastOutcome, mvars>>
wvars == <<service, handlers, population, V1_GRAPH_INCOMING_REQS, UNIQUE_IDS,
           ROLLOUT_WARINESS>>
vars == <<gvars, svars, wvars>>

(***************************************************************************)
(* Option and Result                                                       *)
(***************************************************************************)
None == [tag |-> "None"]
Some(x) == [tag |-> "Some", val |-> x]
Ok(x) == [tag |-> "Ok", val |-> x]
Err(e) == [tag |-> "Err", err |-> e]
is_some(o) == o.tag = "Some"
is_ok(r) == r.tag = "Ok"

(***************************************************************************)
(* commons/src/metadata.rs: metadata keys                                  *)
(***************************************************************************)
SCHEME == "org.fedoraproject.coreos.scheme"
AGE_INDEX == "org.fedoraproject.coreos.releases.age_index"
ARCH_PREFIX == "org.fedoraproject.coreos.releases.arch"
BARRIER == "org.fedoraproject.coreos.updates.barrier"
BARRIER_REASON == "org.fedoraproject.coreos.updates.barrier_reason"
DEADEND == "org.fedoraproject.coreos.updates.deadend"
DEADEND_REASON == "org.fedoraproject.coreos.updates.deadend_reason"
ROLLOUT == "org.fedoraproject.coreos.updates.rollout"
DURATION == "org.fedoraproject.coreos.updates.duration_minutes"
START_EPOCH == "org.fedoraproject.coreos.updates.start_epoch"
START_VALUE == "org.fedoraproject.coreos.updates.start_value"

(***************************************************************************)
(* String helpers: what to_string, format! and starts_with compute.        *)
(***************************************************************************)
DigitChar(d) == SubSeq("0123456789", d + 1, d + 1)

RECURSIVE nat_to_string(_)
nat_to_string(n) ==
    IF n < 10 THEN DigitChar(n)
    ELSE nat_to_string(n \div 10) \o DigitChar(n % 10)

\* i64::to_string / u64::to_string / usize::to_string
int_to_string(n) == IF n < 0 THEN "-" \o nat_to_string(-n) ELSE nat_to_string(n)

\* bool::to_string
bool_to_string(b) == IF b THEN "true" ELSE "false"

\* str::starts_with
starts_with(s, prefix) ==
    /\ Len(s) >= Len(prefix)
    /\ SubSeq(s, 1, Len(prefix)) = prefix

\* format!("{}.{}", metadata::ARCH_PREFIX, arch)
arch_key(arch) == ARCH_PREFIX \o "." \o arch

(***************************************************************************)
(* HashMap<String, String>                                                 *)
(***************************************************************************)
contains_key(m, k) == k \in DOMAIN m
get(m, k) == IF k \in DOMAIN m THEN Some(m[k]) ELSE None
insert(m, k, v) == [x \in (DOMAIN m) \cup {k} |-> IF x = k THEN v ELSE m[x]]
remove(m, k) == [x \in (DOMAIN m) \ {k} |-> m[x]]

(***************************************************************************)
(* dumnati/src/graph.rs: Graph and its assembly                            *)
(***************************************************************************)
Max(S) == CHOOSE x \in S : \A y \in S : y <= x
Min(S) == CHOOSE x \in S : \A y \in S : x <= y

\* struct CincinnatiPayload { version, metadata, payload }
CincinnatiPayload(version, metadata, payload) ==
    [version |-> version, metadata |-> metadata, payload |-> payload]

\* impl Default for Graph
Graph_default == [nodes |-> <<>>, edges |-> <<>>]

\* (the version of the entry not compared: a variant used to test the claims)
barrier_step_any_version(entry, release) ==
    IF is_some(entry.metadata.barrier)
    THEN LET barrier == entry.metadata.barrier.val
             reason == IF barrier.reason = "" THEN "generic" ELSE barrier.reason
         IN  [release EXCEPT !.metadata =
                 insert(insert(@, BARRIER, bool_to_string(TRUE)),
                        BARRIER_REASON, reason)]
    ELSE release

\* One iteration of the loop over updates.releases in inject_barrier_reason.
barrier_step(entry, release) ==
    IF entry.version # release.version THEN release
    ELSE IF is_some(entry.metadata.barrier)
    THEN LET barrier == entry.metadata.barrier.val
             reason == IF barrier.reason = "" THEN "generic" ELSE barrier.reason
         IN  [release EXCEPT !.metadata =
                 insert(insert(@, BARRIER, bool_to_string(TRUE)),
                        BARRIER_REASON, reason)]
    ELSE release

RECURSIVE inject_barrier_from(_, _, _)
inject_barrier_from(entries, k, release) ==
    IF k > Len(entries) THEN release
    ELSE inject_barrier_from(entries, k + 1, barrier_step(entries[k], release))

inject_barrier_reason(upd, release) == inject_barrier_from(upd.releases, 1, release)

\* One iteration of the loop over updates.releases in inject_deadend_reason.
deadend_step(entry, release) ==
    IF entry.version # release.version THEN release
    ELSE IF is_some(entry.metadata.deadend)
    THEN LET deadend == entry.metadata.deadend.val
             reason == IF deadend.reason = "" THEN "generic" ELSE deadend.reason
         IN  [release EXCEPT !.metadata =
                 insert(insert(@, DEADEND, bool_to_string(TRUE)),
                        DEADEND_REASON, reason)]
    ELSE release

RECURSIVE inject_deadend_from(_, _, _)
inject_deadend_from(entries, k, release) ==
    IF k > Len(entries) THEN release
    ELSE inject_deadend_from(entries, k + 1, deadend_step(entries[k], release))

inject_deadend_reason(upd, release) == inject_deadend_from(upd.releases, 1, release)

(***************************************************************************)
(* Numbers.  An f64 is modelled by the number of tenths it holds (5 is     *)
(* 0.5, 10 is 1.0): every value the model feeds to the filters is a        *)
(* multiple of 0.1 and comparisons are made exactly, on cross-multiplied   *)
(* integers.                                                               *)
(***************************************************************************)
Abs(n) == IF n < 0 THEN -n ELSE n

\* f64::to_string: "0", "0.5", "1", "-0.5"
f64_to_string(t) ==
    (IF t < 0 THEN "-" ELSE "")
        \o nat_to_string(Abs(t) \div 10)
        \o (IF Abs(t) % 10 = 0 THEN "" ELSE "." \o DigitChar(Abs(t) % 10))

\* One iteration of the loop over updates.releases in inject_throttling_params.
throttling_step(entry, release) ==
    IF entry.version # release.version THEN release
    ELSE IF is_some(entry.metadata.rollout)
    THEN LET rollout == entry.metadata.rollout.val
             m0 == insert(release.metadata, ROLLOUT, bool_to_string(TRUE))
             m1 == IF is_some(rollout.start_epoch)
                   THEN insert(m0, START_EPOCH, int_to_string(rollout.start_epoch.val))
                   ELSE m0
             m2 == IF is_some(rollout.start_percentage)
                   THEN insert(m1, START_VALUE, f64_to_string(rollout.start_percentage.val))
                   ELSE m1
             m3 == IF is_some(rollout.duration_minutes)
                   THEN insert(m2, DURATION, int_to_string(rollout.duration_minutes.val))
                   ELSE m2
         IN  [release EXCEPT !.metadata = m3]
    ELSE release

RECURSIVE inject_throttling_from(_, _, _)
inject_throttling_from(entries, k, release) ==
    IF k > Len(entries) THEN release
    ELSE inject_throttling_from(entries, k + 1, throttling_step(entries[k], release))

inject_throttling_params(upd, release) ==
    inject_throttling_from(upd.releases, 1, release)

\* The loop over entry.commits in from_metadata: commits with an empty
\* architecture or checksum are skipped.
RECURSIVE insert_commits(_, _, _)
insert_commits(commits, k, metadata) ==
    IF k > Len(commits) THEN metadata
    ELSE LET commit == commits[k]
         IN  IF commit.architecture = "" \/ commit.checksum = ""
             THEN insert_commits(commits, k + 1, metadata)
             ELSE insert_commits(commits, k + 1,
                      insert(metadata, arch_key(commit.architecture), commit.checksum))

\* (the age index counted from 1: a variant used to test the claims)
make_node_from_one(age_index, entry, upd) ==
    LET current == CincinnatiPayload(
                       entry.version,
                       insert_commits(entry.commits, 1,
                           [k \in {AGE_INDEX} |-> nat_to_string(age_index + 1)]),
                       "")
    IN  inject_throttling_params(upd,
            inject_barrier_reason(upd,
                inject_deadend_reason(upd, current)))

\* The closure mapped over releases.into_iter().enumerate() in from_metadata.
make_node(age_index, entry, upd) ==
    LET current == CincinnatiPayload(
                       entry.version,
                       insert_commits(entry.commits, 1,
                           [k \in {AGE_INDEX} |-> nat_to_string(age_index)]),
                       "")
    IN  inject_throttling_params(upd,
            inject_barrier_reason(upd,
                inject_deadend_reason(upd, current)))

\* (the range taken inclusive, lo..=hi: a variant used to test the claims)
edges_towards_inclusive(lo, hi, target) ==
    IF hi >= lo THEN [k \in 1..(hi - lo + 1) |-> <<lo + k - 1, target>>] ELSE <<>>

\* The half-open range lo..hi as edges towards target: (lo, target), ...
edges_towards(lo, hi, target) ==
    IF hi > lo THEN [k \in 1..(hi - lo) |-> <<lo + k - 1, target>>] ELSE <<>>

\* (the previous barrier ignored: a variant used to test the claims)
previous_barrier_zero(barriers, age) == 0

\* barriers.range((Unbounded, Excluded(age))).next_back().cloned().unwrap_or(0)
previous_barrier(barriers, age) ==
    IF {b \in barriers : b < age} = {} THEN 0 ELSE Max({b \in barriers : b < age})

\* "Add edges targeting rollouts, back till the previous barrier": the loop
\* over nodes.iter().enumerate().rev(), from position index down to 0.
RECURSIVE rollout_pass(_, _, _, _)
rollout_pass(index, rollouts, barriers, edges) ==
    IF index < 0 THEN edges
    ELSE IF index \notin rollouts
    THEN rollout_pass(index - 1, rollouts, barriers, edges)
    ELSE rollout_pass(index - 1, rollouts, barriers,
             edges \o edges_towards(previous_barrier(barriers, index), index, index))

\* (without the test for in-progress barriers: a variant used to test the claims)
barrier_edges_unchecked(start, target, rollouts) == edges_towards(start, target, target)

\* The body of the loop "for target in barriers": the edges it pushes.
barrier_edges(start, target, rollouts) ==
    IF target \in rollouts THEN <<>> ELSE edges_towards(start, target, target)

\* (the next range started after the barrier, start = target + 1: a variant
\* used to test the claims)
RECURSIVE barrier_pass_after_target(_, _, _, _)
barrier_pass_after_target(todo, start, rollouts, edges) ==
    IF todo = {} THEN edges
    ELSE LET target == Min(todo)
         IN  barrier_pass_after_target(todo \ {target}, target + 1, rollouts,
                 edges \o barrier_edges(start, target, rollouts))

\* "Add edges targeting barriers, back till the previous barrier": the loop
\* over the BTreeSet barriers in ascending order, todo being what is left.
RECURSIVE barrier_pass(_, _, _, _)
barrier_pass(todo, start, rollouts, edges) ==
    IF todo = {} THEN edges
    ELSE LET target == Min(todo)
         IN  barrier_pass(todo \ {target}, target, rollouts,
                 edges \o barrier_edges(start, target, rollouts))

\* (the pass over the barriers left out: a variant used to test the claims)
compute_edges_rollouts_only(nodes) ==
    LET rollouts == {i \in 0..(Len(nodes) - 1) :
                        contains_key(nodes[i + 1].metadata, ROLLOUT)}
        barriers == {i \in 0..(Len(nodes) - 1) :
                        contains_key(nodes[i + 1].metadata, BARRIER)}
    IN  Ok(rollout_pass(Len(nodes) - 1, rollouts, barriers, <<>>))

\* Graph::compute_edges (always Ok)
compute_edges(nodes) ==
    LET rollouts == {i \in 0..(Len(nodes) - 1) :
                        contains_key(nodes[i + 1].metadata, ROLLOUT)}
        barriers == {i \in 0..(Len(nodes) - 1) :
                        contains_key(nodes[i + 1].metadata, BARRIER)}
        edges == rollout_pass(Len(nodes) - 1, rollouts, barriers, <<>>)
    IN  Ok(barrier_pass(barriers, 0, rollouts, edges))

\* Graph::from_metadata
from_metadata(rels, upd) ==
    LET nodes == [i \in 1..Len(rels) |-> make_node(i - 1, rels[i], upd)]
        edges == compute_edges(nodes)
    IN  IF is_ok(edges) THEN Ok([nodes |-> nodes, edges |-> edges.val])
        ELSE edges

(***************************************************************************)
(* Fixed-width integers.  TLC's integers are 32 bits wide, so u64 and i64  *)
(* are modelled IntBits wide: the wrap-around, saturation and casts below  *)
(* are those of the code, at the reduced width.                            *)
(***************************************************************************)
IntBits == 12
U64_MAX == 2^IntBits - 1
I64_MAX == 2^(IntBits - 1) - 1
I64_MIN == -(2^(IntBits - 1))

in_i64(x) == I64_MIN <= x /\ x <= I64_MAX
\* two's complement wrap-around of an i64 result
i64_wrap(x) == ((x - I64_MIN) % 2^IntBits) + I64_MIN
\* u64::saturating_mul
u64_saturating_mul(a, b) == IF a * b > U64_MAX THEN U64_MAX ELSE a * b
\* `as i64` on a u64
u64_as_i64(x) == IF x > I64_MAX THEN x - 2^IntBits ELSE x
\* i64::saturating_sub
i64_saturating_sub(a, b) ==
    IF a - b > I64_MAX THEN I64_MAX ELSE IF a - b < I64_MIN THEN I64_MIN ELSE a - b
\* u64::max
u64_max(a, b) == IF a >= b THEN a ELSE b

(***************************************************************************)
(* str::parse.  The strings of the model are decimal numbers with an       *)
(* optional sign and at most one fractional digit, or not numbers at all.  *)
(***************************************************************************)
IsDigit(c) == \E d \in 0..9 : DigitChar(d) = c
DigitVal(c) == CHOOSE d \in 0..9 : DigitChar(d) = c
all_digits(s) == Len(s) > 0 /\ \A i \in 1..Len(s) : IsDigit(SubSeq(s, i, i))

RECURSIVE digits_to_nat(_)
digits_to_nat(s) ==
    IF Len(s) = 0 THEN 0
    ELSE digits_to_nat(SubSeq(s, 1, Len(s) - 1)) * 10 + DigitVal(SubSeq(s, Len(s), Len(s)))

has_sign(s) == Len(s) > 0 /\ SubSeq(s, 1, 1) \in {"+", "-"}
unsigned_part(s) == IF has_sign(s) THEN SubSeq(s, 2, Len(s)) ELSE s
sign_of(s) == IF Len(s) > 0 /\ SubSeq(s, 1, 1) = "-" THEN -1 ELSE 1

\* str::parse::<i64>
parse_i64(s) ==
    IF all_digits(unsigned_part(s)) /\ in_i64(sign_of(s) * digits_to_nat(unsigned_part(s)))
    THEN Ok(sign_of(s) * digits_to_nat(unsigned_part(s)))
    ELSE Err("ParseIntError")

\* str::parse::<u64>
parse_u64(s) ==
    LET body == IF Len(s) > 0 /\ SubSeq(s, 1, 1) = "+" THEN SubSeq(s, 2, Len(s)) ELSE s
    IN  IF all_digits(body) /\ digits_to_nat(body) <= U64_MAX
        THEN Ok(digits_to_nat(body))
        ELSE Err("ParseIntError")

\* str::parse::<f64>, in tenths
parse_f64(s) ==
    LET body == unsigned_part(s)
        n == Len(body)
    IN  IF all_digits(body)
        THEN Ok(sign_of(s) * 10 * digits_to_nat(body))
        ELSE IF n >= 3 /\ SubSeq(body, n - 1, n - 1) = "."
                /\ all_digits(SubSeq(body, 1, n - 2)) /\ IsDigit(SubSeq(body, n, n))
        THEN Ok(sign_of(s) * (10 * digits_to_nat(SubSeq(body, 1, n - 2))
                                + DigitVal(SubSeq(body, n, n))))
        ELSE Err("ParseFloatError")

\* Result::unwrap_or
unwrap_or(r, d) == IF is_ok(r) THEN r.val ELSE d

(***************************************************************************)
(* commons/src/policy.rs: the policy filters                               *)
(***************************************************************************)
\* Vec::retain on edges
retain(edges, Keep(_)) == SelectSeq(edges, Keep)

\* (a node no edge reaches taken for a dead-end too: a variant used to test
\* the claims)
filter_deadends_cascading(input) ==
    LET deadends == {index \in 0..(Len(input.nodes) - 1) :
                        \/ get(input.nodes[index + 1].metadata, DEADEND) = Some("true")
                        \/ /\ index > 0
                           /\ \A k \in 1..Len(input.edges) : input.edges[k][2] # index}
    IN  [input EXCEPT !.edges = retain(@, LAMBDA e : e[1] \notin deadends)]

\* (edges entering a dead-end pruned too: a variant used to test the claims)
filter_deadends_both_ends(input) ==
    LET deadends == {index \in 0..(Len(input.nodes) - 1) :
                        get(input.nodes[index + 1].metadata, DEADEND) = Some("true")}
    IN  [input EXCEPT !.edges =
            retain(@, LAMBDA e : e[1] \notin deadends /\ e[2] \notin deadends)]

\* filter_deadends
filter_deadends(input) ==
    LET deadends == {index \in 0..(Len(input.nodes) - 1) :
                        get(input.nodes[index + 1].metadata, DEADEND) = Some("true")}
    IN  [input EXCEPT !.edges = retain(@, LAMBDA e : e[1] \notin deadends)]

\* (the keys of the other architectures left in place: a variant used to
\* test the claims)
pick_release_keep_others(release, key) ==
    LET found == get(release.metadata, key)
    IN  IF is_some(found)
        THEN [release EXCEPT
                 !.payload = found.val,
                 !.metadata = insert(remove(@, key), SCHEME, "checksum")]
        ELSE release

\* (the payload emptied when the key is not there: a variant used to test
\* the claims)
pick_release_reset(release, key) ==
    LET found == get(release.metadata, key)
        picked == IF is_some(found)
                  THEN [release EXCEPT
                           !.payload = found.val,
                           !.metadata = insert(remove(@, key), SCHEME, "checksum")]
                  ELSE [release EXCEPT !.payload = ""]
    IN  [picked EXCEPT !.metadata =
            [k \in {x \in DOMAIN @ : ~starts_with(x, ARCH_PREFIX)} |-> @[k]]]

\* The body of the loop over graph.nodes in pick_basearch.
pick_release(release, key) ==
    LET found == get(release.metadata, key)
        picked == IF is_some(found)
                  THEN [release EXCEPT
                           !.payload = found.val,
                           !.metadata = insert(remove(@, key), SCHEME, "checksum")]
                  ELSE release
    IN  [picked EXCEPT !.metadata =
            [k \in {x \in DOMAIN @ : ~starts_with(x, ARCH_PREFIX)} |-> @[k]]]

\* pick_basearch
pick_basearch(input, basearch) ==
    LET key == arch_key(basearch)
    IN  IF basearch # "x86_64"
        THEN Err("unexpected basearch '" \o basearch)
        ELSE Ok([input EXCEPT !.nodes =
                    [i \in 1..Len(input.nodes) |-> pick_release(input.nodes[i], key)]])

\* The rollout parameters throttle_rollouts reads from a node's metadata.
rollout_start_epoch(release) ==
    IF contains_key(release.metadata, START_EPOCH)
    THEN unwrap_or(parse_i64(release.metadata[START_EPOCH]), 0)
    ELSE 0

rollout_start_value(release) ==
    IF contains_key(release.metadata, START_VALUE)
    THEN unwrap_or(parse_f64(release.metadata[START_VALUE]), 0)
    ELSE 0

\* (a duration that is no number read as one minute: a variant used to test
\* the claims)
rollout_minutes_defaulted(release) ==
    IF contains_key(release.metadata, DURATION)
    THEN Some(u64_max(unwrap_or(parse_u64(release.metadata[DURATION]), 1), 1))
    ELSE None

rollout_minutes(release) ==
    IF contains_key(release.metadata, DURATION)
          /\ is_ok(parse_u64(release.metadata[DURATION]))
    THEN Some(u64_max(parse_u64(release.metadata[DURATION]).val, 1))
    ELSE None

\* start_epoch + (mins.saturating_mul(60)) as i64, before any wrap-around
rollout_end_exact(release) ==
    rollout_start_epoch(release)
        + u64_as_i64(u64_saturating_mul(rollout_minutes(release).val, 60))

rollout_end(release) == i64_wrap(rollout_end_exact(release))

\* (no progress between start and end: a variant used to test the claims)
throttling_no_ramp(release, now) ==
    LET start_epoch == rollout_start_epoch(release)
        start_value == rollout_start_value(release)
        minutes == rollout_minutes(release)
    IN  IF is_some(minutes)
        THEN IF now < start_epoch THEN [num |-> 0, den |-> 1]
             ELSE IF now > rollout_end(release) THEN [num |-> 10, den |-> 1]
             ELSE [num |-> start_value, den |-> 1]
        ELSE IF now < start_epoch THEN [num |-> 0, den |-> 1]
             ELSE [num |-> start_value, den |-> 1]

\* The throttling of a rollout node at time now, as the fraction
\* num / den of 0.1 (den > 0): the value the code compares with the wariness.
throttling(release, now) ==
    LET start_epoch == rollout_start_epoch(release)
        start_value == rollout_start_value(release)
        minutes == rollout_minutes(release)
    IN  IF is_some(minutes)
        THEN LET end == rollout_end(release)
                 span == i64_saturating_sub(end, start_epoch)
             IN  IF now < start_epoch THEN [num |-> 0, den |-> 1]
                 ELSE IF now > end THEN [num |-> 10, den |-> 1]
                 ELSE \* start_value + rate * (now - start_epoch)
                      [num |-> start_value * span
                                  + (10 - start_value) * i64_wrap(now - start_epoch),
                       den |-> span]
        ELSE IF now < start_epoch THEN [num |-> 0, den |-> 1]
             ELSE [num |-> start_value, den |-> 1]

\* Whether computing the throttling of this node overflows an i64: a build
\* with overflow checks panics there, a build without wraps around.
throttling_overflows(release, now) ==
    /\ is_some(rollout_minutes(release))
    /\ \/ ~in_i64(rollout_end_exact(release))
       \/ /\ now >= rollout_start_epoch(release)
          /\ now <= rollout_end(release)
          /\ ~in_i64(now - rollout_start_epoch(release))

\* (client_wariness < throttling: a variant used to test the claims)
hides_inverted(client_wariness, thr) == client_wariness * thr.den < thr.num

\* (client_wariness >= throttling: a variant used to test the claims)
hides_or_equal(client_wariness, thr) == client_wariness * thr.den >= thr.num

\* client_wariness > throttling, the wariness in tenths
hides(client_wariness, thr) == client_wariness * thr.den > thr.num

\* (edges leaving a hidden node pruned too: a variant used to test the claims)
throttle_rollouts_both_ends(input, client_wariness, now) ==
    LET hidden == {index \in 0..(Len(input.nodes) - 1) :
                      /\ contains_key(input.nodes[index + 1].metadata, ROLLOUT)
                      /\ hides(client_wariness,
                               throttling(input.nodes[index + 1], now))}
    IN  [input EXCEPT !.edges =
            retain(@, LAMBDA e : e[1] \notin hidden /\ e[2] \notin hidden)]

\* throttle_rollouts, evaluated at time now (chrono::Utc::now().timestamp())
throttle_rollouts(input, client_wariness, now) ==
    LET hidden == {index \in 0..(Len(input.nodes) - 1) :
                      /\ contains_key(input.nodes[index + 1].metadata, ROLLOUT)
                      /\ hides(client_wariness,
                               throttling(input.nodes[index + 1], now))}
    IN  [input EXCEPT !.edges = retain(@, LAMBDA e : e[2] \notin hidden)]

(***************************************************************************)
(* Upstream documents (commons/src/metadata.rs: ReleasesJSON, UpdatesJSON) *)
(* the model feeds to the assembler.                                       *)
(***************************************************************************)
MaxReleases == 3

\* the version of the release at position i (0-based) of the release index
release_version(i) == "32.2020." \o nat_to_string(i)

\* struct Release: every release has an x86_64 commit, odd ones an aarch64
\* commit too, and a commit without checksum that assembly must skip.
release_at(i) ==
    [version |-> release_version(i),
     metadata |-> "",
     commits |->
        <<[architecture |-> "x86_64", checksum |-> "sha-x86_64-" \o nat_to_string(i)]>>
        \o (IF i % 2 = 1
            THEN <<[architecture |-> "aarch64",
                    checksum |-> "sha-aarch64-" \o nat_to_string(i)]>>
            ELSE <<>>)
        \o <<[architecture |-> "s390x", checksum |-> ""]>>,
     oci_images |->
        <<[architecture |-> "x86_64", digest_ref |-> "quay.io/fcos@sha256:" \o nat_to_string(i)],
          [architecture |-> "aarch64", digest_ref |-> "quay.io/fcos@sha256:a" \o nat_to_string(i)]>>]

\* struct UpdateMetadata { barrier, deadend, rollout }
UpdateMetadata(barrier, deadend, rollout) ==
    [barrier |-> barrier, deadend |-> deadend, rollout |-> rollout]

\* struct UpdateRollout { start_epoch, start_percentage, duration_minutes }
UpdateRollout(start_epoch, start_percentage, duration_minutes) ==
    [start_epoch |-> start_epoch, start_percentage |-> start_percentage,
     duration_minutes |-> duration_minutes]

\* a rollout ramping from 0.0 over two minutes from t = 120, one stuck at 0.5
\* without a duration, and one without any parameter
RolloutRamp == UpdateRollout(Some(120), Some(0), Some(2))
RolloutFixed == UpdateRollout(Some(120), Some(5), None)
RolloutBare == UpdateRollout(None, None, None)

\* The updates metadata a release can have: "absent" is a release without
\* an entry in the updates document.
UpdateKinds ==
    {"absent", "barrier", "rollout", "deadend", "barrier+rollout",
     "barrier+deadend", "rollout+deadend", "barrier+rollout+deadend"}

update_metadata(kind) ==
    CASE kind = "barrier" -> UpdateMetadata(Some([reason |-> ""]), None, None)
      [] kind = "rollout" -> UpdateMetadata(None, None, Some(RolloutRamp))
      [] kind = "deadend" -> UpdateMetadata(None, Some([reason |-> "eol"]), None)
      [] kind = "barrier+rollout" ->
            UpdateMetadata(Some([reason |-> "migration"]), None, Some(RolloutFixed))
      [] kind = "barrier+deadend" ->
            UpdateMetadata(Some([reason |-> "migration"]), Some([reason |-> ""]), None)
      [] kind = "rollout+deadend" ->
            UpdateMetadata(None, Some([reason |-> "eol"]), Some(RolloutBare))
      [] kind = "barrier+rollout+deadend" ->
            UpdateMetadata(Some([reason |-> ""]), Some([reason |-> ""]), Some(RolloutRamp))

\* Vec<Release> of n releases
make_releases(n) == [i \in 1..n |-> release_at(i - 1)]

RECURSIVE update_entries(_, _)
update_entries(kinds, k) ==
    IF k > Len(kinds) THEN <<>>
    ELSE (IF kinds[k] = "absent" THEN <<>>
          ELSE <<[version |-> release_version(k - 1),
                  metadata |-> update_metadata(kinds[k])]>>)
         \o update_entries(kinds, k + 1)

\* UpdatesJSON: an entry for a version the release index does not have,
\* then the entries of the releases, kinds[i] being the kind of release i - 1.
make_updates(stream, kinds) ==
    [stream |-> stream,
     releases |->
        <<[version |-> "31.2019.0",
           metadata |-> update_metadata("barrier+rollout+deadend")]>>
        \o update_entries(kinds, 1)]

(***************************************************************************)
(* The assembler and the filters as a state machine: a release index and   *)
(* an updates document are assembled into cur, and the filters are then    *)
(* applied to cur in any order, with any argument.                         *)
(***************************************************************************)
Basearches == {"x86_64", "aarch64"}
\* client wariness, in tenths
Wariness == {0, 4, 6, 10}
\* evaluation times: before, within and after the ramp of RolloutRamp
Times == {60, 180, 300}

\* no request to /v1/graph is handled
NoRequest ==
    /\ service = [program |-> "none"]
    /\ handlers = <<>>
    /\ population = {}
    /\ V1_GRAPH_INCOMING_REQS = 0
    /\ UNIQUE_IDS = 0
    /\ ROLLOUT_WARINESS = <<>>

\* no scraper runs while the assembler, the filters or fix_releases are
\* exercised; digests is the digests map fix_releases reads
NoScraperBut(digests) ==
    /\ program = "none"
    /\ started = <<>> /\ ticks = <<>> /\ timers = <<>> /\ inflight = <<>>
    /\ graphs = <<>> /\ oci_graphs = <<>> /\ graph = <<>>
    /\ UPSTREAM_SCRAPES = <<>> /\ CACHED_GRAPH_REQUESTS = <<>>
    /\ reply = None /\ lastGood = <<>> /\ lastOutcome = <<>>
    /\ LAST_REFRESH = <<>> /\ GRAPH_FINAL_EDGES = <<>> /\ GRAPH_FINAL_RELEASES = <<>>
    /\ clock = 0
    /\ version_digests_map = digests

NoScraper == NoScraperBut(<<>>)

GraphInit ==
    /\ NoScraper
    /\ NoRequest
    /\ \E n \in 0..MaxReleases :
         \E kinds \in [1..n -> UpdateKinds] :
            /\ releases = make_releases(n)
            /\ updates = make_updates("testing", kinds)
    /\ cur = None
    /\ op = [name |-> "none"]

Assemble ==
    /\ cur = None
    /\ LET res == from_metadata(releases, updates)
       IN  /\ is_ok(res)
           /\ cur' = Some(res.val)
    /\ op' = [name |-> "from_metadata"]
    /\ UNCHANGED <<releases, updates, svars, wvars>>

PickBasearch(basearch) ==
    /\ is_some(cur)
    /\ LET res == pick_basearch(cur.val, basearch)
       IN  /\ cur' = IF is_ok(res) THEN Some(res.val) ELSE cur
           /\ op' = [name |-> "pick_basearch", basearch |-> basearch, ok |-> is_ok(res)]
    /\ UNCHANGED <<releases, updates, svars, wvars>>

ThrottleRollouts(client_wariness, now) ==
    /\ is_some(cur)
    /\ cur' = Some(throttle_rollouts(cur.val, client_wariness, now))
    /\ op' = [name |-> "throttle_rollouts", wariness |-> client_wariness, now |-> now]
    /\ UNCHANGED <<releases, updates, svars, wvars>>

FilterDeadends ==
    /\ is_some(cur)
    /\ cur' = Some(filter_deadends(cur.val))
    /\ op' = [name |-> "filter_deadends"]
    /\ UNCHANGED <<releases, updates, svars, wvars>>

GraphNext ==
    \/ Assemble
    \/ \E basearch \in Basearches : PickBasearch(basearch)
    \/ \E w \in Wariness, now \in Times : ThrottleRollouts(w, now)
    \/ FilterDeadends

GraphSpec == GraphInit /\ [][GraphNext]_vars

(***************************************************************************)
(* Properties of assembled and filtered graphs (GraphSpec)                 *)
(***************************************************************************)
\* cur holds the graph from_metadata returned, no filter applied yet
Assembled == is_some(cur) /\ op.name = "from_metadata"

node_has(g, index, key) == contains_key(g.nodes[index + 1].metadata, key)
node_indices(g) == 0..(Len(g.nodes) - 1)
barriers_of(g) == {i \in node_indices(g) : node_has(g, i, BARRIER)}
rollouts_of(g) == {i \in node_indices(g) : node_has(g, i, ROLLOUT)}
deadends_of(g) == {i \in node_indices(g) : node_has(g, i, DEADEND)}
edge_set(g) == {g.edges[k] : k \in 1..Len(g.edges)}

\* C8: in every graph produced by assembly, whatever the placement of the
\* barrier and rollout markers, no edge (f, t) jumps over a barrier b, that
\* is, there are no edge (f, t) and barrier node b with f < b < t.
C8_NoEdgeSkipsBarrier ==
    Assembled =>
        \A e \in edge_set(cur.val) : \A b \in barriers_of(cur.val) :
            ~(e[1] < b /\ b < e[2])

\* C8 witness: an assembled graph with a node that is both barrier and
\* rollout, with an edge arriving at it from an older node and an edge
\* leaving it towards a newer node.
C8_Witness ==
    /\ Assembled
    /\ \E b \in barriers_of(cur.val) \cap rollouts_of(cur.val) :
          /\ \E e \in edge_set(cur.val) : e[2] = b /\ e[1] < b
          /\ \E e \in edge_set(cur.val) : e[1] = b /\ e[2] > b

\* C9: every edge (f, t) of an assembled graph, and of every graph obtained
\* from it by pick_basearch, throttle_rollouts and filter_deadends in any
\* order, satisfies 0 <= f < t < number of nodes.
C9_EdgesOlderToNewer ==
    is_some(cur) =>
        \A e \in edge_set(cur.val) :
            0 <= e[1] /\ e[1] < e[2] /\ e[2] < Len(cur.val.nodes)

\* C9 witness: a graph with edges left on which all three filters have
\* acted: a payload was picked, an assembled edge towards a rollout from a
\* source that is no dead-end is gone, and so is an assembled edge leaving a
\* dead-end towards a node that is no rollout.
C9_Witness ==
    /\ is_some(cur)
    /\ cur.val.edges # <<>>
    /\ \E i \in node_indices(cur.val) : node_has(cur.val, i, SCHEME)
    /\ LET assembled == from_metadata(releases, updates).val
       IN  /\ \E e \in edge_set(assembled) \ edge_set(cur.val) :
                e[2] \in rollouts_of(assembled) /\ e[1] \notin deadends_of(assembled)
           /\ \E e \in edge_set(assembled) \ edge_set(cur.val) :
                e[1] \in deadends_of(assembled) /\ e[2] \notin rollouts_of(assembled)

\* C10: an assembled graph never holds the same (from, to) pair twice; a
\* node b that is both a barrier and a rollout has exactly the incoming
\* edges of the rollout pass, one from each node between the previous
\* barrier (or 0) and b.
C10_NoMultiEdges ==
    Assembled =>
        /\ \A i, j \in 1..Len(cur.val.edges) :
              i # j => cur.val.edges[i] # cur.val.edges[j]
        /\ \A b \in barriers_of(cur.val) \cap rollouts_of(cur.val) :
              LET below == {x \in barriers_of(cur.val) : x < b}
                  p == IF below = {} THEN 0 ELSE Max(below)
              IN  {e \in edge_set(cur.val) : e[2] = b} = {<<i, b>> : i \in p..(b - 1)}

\* C10 witness: an assembled graph where a node that is both a barrier and a
\* rollout has incoming edges.
C10_Witness ==
    /\ Assembled
    /\ \E b \in barriers_of(cur.val) \cap rollouts_of(cur.val) :
          \E e \in edge_set(cur.val) : e[2] = b

(***************************************************************************)
(* The scrapers.  Two binaries hold one: fcos-graph-builder, whose scraper *)
(* serves the graphs of one stream for a set of architectures as           *)
(* serialized bytes, and dumnati, which starts one scraper per stream,     *)
(* each holding one Graph.                                                 *)
(***************************************************************************)
GB == "fcos-graph-builder"
DUMNATI == "dumnati"

\* fcos-graph-builder: the scraper under study, Scraper::new(stream, arches)
gb_stream == "stable"
gb_arches == {"x86_64", "aarch64"}

\* dumnati main: streams_cfg = btreeset!["next", "stable", "testing"], one
\* scraper per stream.  The scrapers are independent actors: the model
\* follows MaxScrapers of them at a time, whichever they are.
streams_cfg == {"next", "stable", "testing"}
MaxScrapers == 1
ScraperNames == streams_cfg
Scrapers == DOMAIN started

\* struct GraphScope { basearch, stream, oci }
GraphScope(basearch, stream, oci) == [basearch |-> basearch, stream |-> stream, oci |-> oci]

\* the scopes readers ask the fcos-graph-builder scraper for
RequestScopes ==
    {GraphScope("x86_64", "stable", FALSE), GraphScope("aarch64", "stable", TRUE),
     GraphScope("x86_64", "testing", FALSE), GraphScope("aarch64", "testing", TRUE),
     GraphScope("s390x", "stable", FALSE), GraphScope("s390x", "stable", TRUE)}

\* the documents the upstream serves over time
ReleaseDocs == {make_releases(MaxReleases - 1), make_releases(MaxReleases)}
UpdateDocs(stream) == {make_updates(stream, <<"absent", "barrier", "rollout+deadend">>)}

\* every pair of documents a refresh can have fetched
UpstreamPairs ==
    {[releases |-> r, updates |-> u] :
        r \in ReleaseDocs, u \in UNION {UpdateDocs(stream) : stream \in ScraperNames}}

\* Graph::from_metadata (dumnati) over those pairs, tabulated: the table is
\* computed once, each refresh looks its graph up
assembled_table ==
    [joined \in UpstreamPairs |-> from_metadata(joined.releases, joined.updates)]

(***************************************************************************)
(* serde_json: a serialized graph is modelled by its two fields in order,  *)
(* each with the indentation it was written with (to_vec writes compact    *)
(* JSON, to_vec_pretty indents by two spaces).                             *)
(***************************************************************************)
serialize(g, indent) ==
    <<[key |-> "nodes", json |-> g.nodes, indent |-> indent],
      [key |-> "edges", json |-> g.edges, indent |-> indent]>>
to_vec(g) == serialize(g, 0)
to_vec_pretty(g) == serialize(g, 2)

\* a buffer that is one whole serialization
is_complete(bytes) ==
    /\ Len(bytes) = 2
    /\ bytes[1].key = "nodes" /\ bytes[2].key = "edges"
    /\ bytes[1].indent = bytes[2].indent

(***************************************************************************)
(* commons::graph::Graph::from_metadata(releases, updates, scope): not     *)
(* among the sources; modelled from the specification (4.B, 4.C and 6):    *)
(* the assembly of graph.rs over the commits, or over the OCI images for   *)
(* an OCI scope, arch-selected for the scope's basearch.                   *)
(***************************************************************************)
arch_select_release(release, basearch, scheme) ==
    LET found == get(release.metadata, arch_key(basearch))
        picked == IF is_some(found)
                  THEN [release EXCEPT
                           !.payload = found.val,
                           !.metadata = insert(@, SCHEME, scheme)]
                  ELSE release
    IN  [picked EXCEPT !.metadata =
            [k \in {x \in DOMAIN @ : ~starts_with(x, ARCH_PREFIX)} |-> @[k]]]

scoped_releases(rels, scope) ==
    [i \in 1..Len(rels) |->
        IF scope.oci
        THEN [rels[i] EXCEPT !.commits =
                 [k \in 1..Len(rels[i].oci_images) |->
                     [architecture |-> rels[i].oci_images[k].architecture,
                      checksum |-> rels[i].oci_images[k].digest_ref]]]
        ELSE rels[i]]

commons_from_metadata(rels, upd, scope) ==
    LET g == from_metadata(scoped_releases(rels, scope), upd).val
    IN  [g EXCEPT !.nodes =
            [i \in 1..Len(g.nodes) |->
                arch_select_release(g.nodes[i], scope.basearch,
                                    IF scope.oci THEN "oci" ELSE "checksum")]]

\* the scopes of the graphs the scraper of fcos-graph-builder assembles
AssembledScopes == {GraphScope(arch, gb_stream, oci) : arch \in gb_arches, oci \in BOOLEAN}

\* commons::graph::Graph::from_metadata over the pairs of documents and
\* those scopes, tabulated as assembled_table is
commons_table ==
    [joined \in UpstreamPairs, scope \in AssembledScopes |->
        commons_from_metadata(joined.releases, joined.updates, scope)]

(***************************************************************************)
(* fcos-graph-builder/src/scraper.rs                                       *)
(***************************************************************************)
\* Scraper::new: the serialized empty graph
empty_bytes == to_vec(Graph_default)

\* (every arch mapped to Bytes::new(): a variant used to test the claims)
new_graphs_blank(arches) == [arch \in arches |-> <<>>]

\* Scraper::new: graphs and oci_graphs, every arch mapped to the empty graph
new_graphs(arches) == [arch \in arches |-> empty_bytes]

\* assemble_graphs, once try_join has resolved to joined: the graphs of
\* every arch, legacy then OCI; assembly_ok tells whether every
\* from_metadata call returned Ok.
assemble_graphs(stream, arches, joined, assembly_ok) ==
    IF ~is_ok(joined) THEN joined
    ELSE IF ~assembly_ok THEN Err("from_metadata")
    ELSE LET maps == [oci \in BOOLEAN |->
                        [arch \in arches |->
                            commons_table[joined.val, GraphScope(arch, stream, oci)]]]
         IN  Ok([map |-> maps[FALSE], oci_map |-> maps[TRUE]])

\* (the buffer overwritten field by field, the second write lost: a variant
\* used to test the claims)
update_cached_graph_torn(cache, arch, g) ==
    insert(cache, arch, <<to_vec_pretty(g)[1], cache[arch][2]>>)

\* update_cached_graph: self.graphs.insert(arch, Bytes::from(data)), resp.
\* self.oci_graphs.insert(...); cache is the map the call writes to.
update_cached_graph(cache, arch, g) == insert(cache, arch, to_vec_pretty(g))

\* (the calls stopped after the first one: a variant used to test the claims)
update_all_first_only(cache, todo, assembled) ==
    IF todo = {} THEN cache
    ELSE LET arch == CHOOSE a \in todo : TRUE
         IN  update_cached_graph(cache, arch, assembled[arch])

\* the iterator of update_cached_graph calls over one assembled map
RECURSIVE update_all(_, _, _)
update_all(cache, todo, assembled) ==
    IF todo = {} THEN cache
    ELSE LET arch == CHOOSE a \in todo : TRUE
         IN  update_all(update_cached_graph(cache, arch, assembled[arch]),
                        todo \ {arch}, assembled)

\* (the cache emptied when the refresh failed: a variant used to test the claims)
refresh_cache_or_clear(cache, res, oci) ==
    IF is_ok(res)
    THEN LET assembled == IF oci THEN res.val.oci_map ELSE res.val.map
         IN  update_all(cache, DOMAIN assembled, assembled)
    ELSE [arch \in DOMAIN cache |-> <<>>]

\* RefreshTick handler, the closure given to map: graphs.and_then(...) runs
\* the updates only on Ok; an Err is logged and leaves the maps alone.
refresh_cache(cache, res, oci) ==
    IF is_ok(res)
    THEN LET assembled == IF oci THEN res.val.oci_map ELSE res.val.map
         IN  update_all(cache, DOMAIN assembled, assembled)
    ELSE cache

\* (the test of the stream left out: a variant used to test the claims)
stream_differs_never(msg_stream, self_stream) == FALSE

\* GetCachedGraph handler: msg.scope.stream != self.stream
stream_differs(msg_stream, self_stream) == msg_stream # self_stream

\* labels of CACHED_GRAPH_REQUESTS: basearch, stream, graph_type
request_label(scope) ==
    <<scope.basearch, scope.stream, IF scope.oci THEN "oci" ELSE "checksum">>

\* GetCachedGraph handler: the response
gb_get_cached_graph(self_stream, self_graphs, self_oci_graphs, msg) ==
    IF stream_differs(msg.scope.stream, self_stream)
    THEN Err("unexpected stream '" \o msg.scope.stream \o "'")
    ELSE LET target_graphmap == IF msg.scope.oci THEN self_oci_graphs ELSE self_graphs
             found == get(target_graphmap, msg.scope.basearch)
         IN  IF is_some(found) THEN Ok(found.val)
             ELSE Err("unexpected basearch '" \o msg.scope.basearch \o "'")

\* GetCachedGraph handler: whether CACHED_GRAPH_REQUESTS is incremented
gb_counts_request(self_stream, self_graphs, self_oci_graphs, msg) ==
    /\ ~stream_differs(msg.scope.stream, self_stream)
    /\ is_some(get(IF msg.scope.oci THEN self_oci_graphs ELSE self_graphs,
                   msg.scope.basearch))

(***************************************************************************)
(* dumnati/src/scraper.rs                                                  *)
(***************************************************************************)
\* RefreshTick handler: map_err logs the error, map stores the graph
store_graph(old, res) == IF is_ok(res) THEN res.val ELSE old

\* assemble_graph, once join has resolved to joined
assemble_graph(joined) ==
    IF is_ok(joined) THEN assembled_table[joined.val]
    ELSE joined

\* GetCachedGraph handler
dumnati_get_cached_graph(self_graph, msg) ==
    IF msg.stream # "testing"
    THEN Err("unexpected stream '" \o msg.stream \o "'")
    ELSE Ok(self_graph)

(***************************************************************************)
(* The actor context (actix): ctx.notify puts a message in the actor's own *)
(* mailbox, ctx.notify_later arms a one-shot timer that does so when it    *)
(* elapses.                                                                *)
(***************************************************************************)
\* tick_now: ctx.notify(RefreshTick {})
tick_now(mailbox) == mailbox + 1

\* tick_later: ctx.notify_later(RefreshTick {}, after)
tick_later(armed) == armed + 1

\* (a periodic timer, as run_interval would arm: a variant used to test the claims)
timer_elapsed_periodic(armed) == armed

\* the timer armed by notify_later elapses: it is one-shot
timer_elapsed(armed) == armed - 1

\* (the next tick scheduled only after a successful refresh, as and_then
\* would: a variant used to test the claims)
reschedule_on_success(armed, res) == IF is_ok(res) THEN tick_later(armed) ELSE armed

\* RefreshTick handler, the closure given to then: it runs whatever the
\* result r of the refresh
reschedule(armed, res) == tick_later(armed)

\* counters are fixed-width integers: inc() wraps around
CounterWrap == 2
counter_inc(c) == (c + 1) % CounterWrap

(***************************************************************************)
(* The scrapers as a state machine                                         *)
(***************************************************************************)
\* the assembler and the filters are not exercised while the scrapers run
NoGraphOp ==
    /\ releases = <<>>
    /\ updates = [stream |-> "", releases |-> <<>>]
    /\ cur = None
    /\ op = [name |-> "none"]

\* The gauges before any refresh: fcos-graph-builder's are vectors with no
\* label values yet, dumnati's scraper.rs has one IntGauge each, at 0.
no_gauge(binary) == IF binary = GB THEN <<>> ELSE [l \in {<<>>} |-> 0]

\* the label values update_cached_graph gives the gauges: arch, stream,
\* graph_type
gauge_label(arch, stream, oci) == <<arch, stream, IF oci THEN "oci" ELSE "checksum">>

\* the graph update_cached_graph is called with for these label values
assembled_for(res, label) ==
    IF label[3] = "oci" THEN res.val.oci_map[label[1]] ELSE res.val.map[label[1]]

\* update_cached_graph, for every graph of an assembled pair of maps:
\* LAST_REFRESH.with_label_values(..).set(refresh_timestamp.timestamp())
gb_set_last_refresh(gauge, stream, res, now) ==
    IF ~is_ok(res) THEN gauge
    ELSE LET labels == {gauge_label(arch, stream, oci) :
                            arch \in DOMAIN res.val.map, oci \in BOOLEAN}
         IN  [l \in DOMAIN gauge \cup labels |-> IF l \in labels THEN now ELSE gauge[l]]

\* GRAPH_FINAL_EDGES.with_label_values(..).set(graph.edges.len() as i64)
gb_set_final_edges(gauge, stream, res) ==
    IF ~is_ok(res) THEN gauge
    ELSE LET labels == {gauge_label(arch, stream, oci) :
                            arch \in DOMAIN res.val.map, oci \in BOOLEAN}
         IN  [l \in DOMAIN gauge \cup labels |->
                IF l \in labels THEN Len(assembled_for(res, l).edges) ELSE gauge[l]]

\* GRAPH_FINAL_RELEASES.with_label_values(..).set(graph.nodes.len() as i64)
gb_set_final_releases(gauge, stream, res) ==
    IF ~is_ok(res) THEN gauge
    ELSE LET labels == {gauge_label(arch, stream, oci) :
                            arch \in DOMAIN res.val.map, oci \in BOOLEAN}
         IN  [l \in DOMAIN gauge \cup labels |->
                IF l \in labels THEN Len(assembled_for(res, l).nodes) ELSE gauge[l]]

\* dumnati RefreshTick handler, the closure given to map: LAST_REFRESH.set(..),
\* GRAPH_FINAL_EDGES.set(..), GRAPH_FINAL_RELEASES.set(..) on the one gauge
\* of the process
dumnati_set_gauge(gauge, stream, res, value) ==
    IF is_ok(res) THEN insert(gauge, <<>>, value) ELSE gauge

\* The state after main has constructed the scrapers (Scraper::new), before
\* any of them has started.
ScrapersConstructed(followed) ==
    /\ NoGraphOp
    /\ NoRequest
    /\ program \in {GB, DUMNATI}
    /\ \E ids \in SUBSET ScraperNames :
           /\ IF program = GB THEN ids = {gb_stream} ELSE Cardinality(ids) = followed
           /\ started = [id \in ids |-> FALSE]
           /\ ticks = [id \in ids |-> 0]
           /\ timers = [id \in ids |-> 0]
           /\ inflight = [id \in ids |-> <<>>]
           /\ graphs = IF program = GB THEN [id \in ids |-> new_graphs(gb_arches)] ELSE <<>>
           /\ oci_graphs = IF program = GB THEN [id \in ids |-> new_graphs(gb_arches)] ELSE <<>>
           /\ graph = IF program = DUMNATI THEN [id \in ids |-> Graph_default] ELSE <<>>
           /\ lastGood = [id \in ids |-> None]
           /\ lastOutcome = [id \in ids |-> "none"]
    /\ UPSTREAM_SCRAPES = IF program = GB THEN [l \in {<<gb_stream>>} |-> 0]
                          ELSE [l \in {<<>>} |-> 0]
    /\ CACHED_GRAPH_REQUESTS =
          IF program = GB THEN [l \in {request_label(sc) : sc \in RequestScopes} |-> 0]
          ELSE <<>>
    /\ reply = None
    /\ LAST_REFRESH = no_gauge(program)
    /\ GRAPH_FINAL_EDGES = no_gauge(program)
    /\ GRAPH_FINAL_RELEASES = no_gauge(program)
    /\ clock = 0
    /\ version_digests_map = <<>>

Init == ScrapersConstructed(MaxScrapers)

\* Actor::started: Self::tick_now(ctx)
Start(id) ==
    /\ id \in Scrapers
    /\ ~started[id]
    /\ started' = [started EXCEPT ![id] = TRUE]
    /\ ticks' = [ticks EXCEPT ![id] = tick_now(@)]
    /\ UNCHANGED <<program, timers, inflight, graphs, oci_graphs, graph,
                   UPSTREAM_SCRAPES, CACHED_GRAPH_REQUESTS, reply, lastGood,
                   lastOutcome, mvars, gvars, wvars>>

\* labels of UPSTREAM_SCRAPES: the stream (fcos-graph-builder), none (dumnati)
scrapes_label(id) == IF program = GB THEN <<id>> ELSE <<>>

\* Handler<RefreshTick>::handle up to the point where it returns the future:
\* the counter is incremented and the two fetches are on their way.
HandleRefreshTick(id) ==
    /\ id \in Scrapers
    /\ started[id]
    /\ ticks[id] > 0
    /\ ticks' = [ticks EXCEPT ![id] = @ - 1]
    /\ UPSTREAM_SCRAPES' = [UPSTREAM_SCRAPES EXCEPT ![scrapes_label(id)] = counter_inc(@)]
    /\ inflight' = [inflight EXCEPT ![id] = Append(@, [releases |-> None, updates |-> None])]
    /\ UNCHANGED <<program, started, timers, graphs, oci_graphs, graph,
                   CACHED_GRAPH_REQUESTS, reply, lastGood, lastOutcome, mvars, gvars, wvars>>

remove_at(seq, k) == SubSeq(seq, 1, k - 1) \o SubSeq(seq, k + 1, Len(seq))

\* The rest of the RefreshTick future, run in one poll once try_join (join)
\* has resolved to joined: assembly, the closure given to map, which writes
\* the cache, and the closure given to then, which schedules the next tick.
RefreshDone(id, k, joined, assembly_ok) ==
    LET res == IF program = GB
               THEN assemble_graphs(id, DOMAIN graphs[id], joined, assembly_ok)
               ELSE assemble_graph(joined)
    IN  /\ graphs' = IF program = GB
                     THEN [graphs EXCEPT ![id] = refresh_cache(@, res, FALSE)]
                     ELSE graphs
        /\ oci_graphs' = IF program = GB
                         THEN [oci_graphs EXCEPT ![id] = refresh_cache(@, res, TRUE)]
                         ELSE oci_graphs
        /\ graph' = IF program = DUMNATI
                    THEN [graph EXCEPT ![id] = store_graph(@, res)]
                    ELSE graph
        /\ timers' = [timers EXCEPT ![id] = reschedule(@, res)]
        /\ inflight' = [inflight EXCEPT ![id] = remove_at(@, k)]
        /\ lastGood' = IF is_ok(res) THEN [lastGood EXCEPT ![id] = Some(joined.val)]
                       ELSE lastGood
        /\ lastOutcome' = [lastOutcome EXCEPT ![id] = IF is_ok(res) THEN "ok" ELSE res.err]
        /\ LAST_REFRESH' =
              IF program = GB THEN gb_set_last_refresh(LAST_REFRESH, id, res, clock)
              ELSE dumnati_set_gauge(LAST_REFRESH, id, res, clock)
        /\ GRAPH_FINAL_EDGES' =
              IF program = GB THEN gb_set_final_edges(GRAPH_FINAL_EDGES, id, res)
              ELSE dumnati_set_gauge(GRAPH_FINAL_EDGES, id, res,
                                     IF is_ok(res) THEN Len(res.val.edges) ELSE 0)
        /\ GRAPH_FINAL_RELEASES' =
              IF program = GB THEN gb_set_final_releases(GRAPH_FINAL_RELEASES, id, res)
              ELSE dumnati_set_gauge(GRAPH_FINAL_RELEASES, id, res,
                                     IF is_ok(res) THEN Len(res.val.nodes) ELSE 0)
        /\ UNCHANGED <<program, started, ticks, UPSTREAM_SCRAPES,
                       CACHED_GRAPH_REQUESTS, reply, clock,
                       version_digests_map, gvars, wvars>>

ReleaseOutcomes == {Err("fetch_releases")} \cup {Ok(d) : d \in ReleaseDocs}
UpdateOutcomes(stream) == {Err("fetch_updates")} \cup {Ok(d) : d \in UpdateDocs(stream)}
Fetches == {"releases", "updates"}
FetchOutcomes(id, which) ==
    IF which = "releases" THEN ReleaseOutcomes ELSE UpdateOutcomes(id)

\* try_join (futures 0.3) and join (futures 0.1) over fetch_releases and
\* fetch_updates, as the fetch which resolves to outcome: an error resolves
\* the join at once, a value resolves it when the other fetch has returned
\* its own; None while the join is still pending.
try_join(slot, which, outcome) ==
    IF ~is_ok(outcome) THEN outcome
    ELSE LET filled == [slot EXCEPT ![which] = Some(outcome.val)]
         IN  IF is_some(filled.releases) /\ is_some(filled.updates)
             THEN Ok([releases |-> filled.releases.val, updates |-> filled.updates.val])
             ELSE None

\* One of the two fetches of refresh k resolves, and with it the rest of the
\* RefreshTick future if the join resolves.
FetchResolved(id, k, which, outcome, assembly_ok) ==
    /\ id \in Scrapers
    /\ k \in 1..Len(inflight[id])
    /\ inflight[id][k][which] = None
    /\ program = DUMNATI => assembly_ok
    /\ LET joined == try_join(inflight[id][k], which, outcome)
       IN  IF joined = None
           THEN /\ inflight' = [inflight EXCEPT ![id][k][which] = Some(outcome.val)]
                /\ UNCHANGED <<program, started, ticks, timers, graphs, oci_graphs, graph,
                               UPSTREAM_SCRAPES, CACHED_GRAPH_REQUESTS, reply, lastGood,
                               lastOutcome, mvars, gvars, wvars>>
           ELSE RefreshDone(id, k, joined, assembly_ok)

\* The timer armed by tick_later elapses: RefreshTick goes to the mailbox.
TimerElapses(id) ==
    /\ id \in Scrapers
    /\ timers[id] > 0
    /\ timers' = [timers EXCEPT ![id] = timer_elapsed(@)]
    /\ ticks' = [ticks EXCEPT ![id] = @ + 1]
    /\ UNCHANGED <<program, started, inflight, graphs, oci_graphs, graph,
                   UPSTREAM_SCRAPES, CACHED_GRAPH_REQUESTS, reply, lastGood,
                   lastOutcome, mvars, gvars, wvars>>

\* fcos-graph-builder: Handler<GetCachedGraph>::handle for a message with
\* the given scope; the sender has no response pending.
GBGetCachedGraph(id, scope) ==
    /\ program = GB
    /\ id \in Scrapers
    /\ started[id]
    /\ reply = None
    /\ LET msg == [scope |-> scope]
       IN  /\ reply' = Some([to |-> id, msg |-> msg,
                             result |-> gb_get_cached_graph(id, graphs[id], oci_graphs[id], msg)])
           /\ CACHED_GRAPH_REQUESTS' =
                 IF gb_counts_request(id, graphs[id], oci_graphs[id], msg)
                 THEN [CACHED_GRAPH_REQUESTS EXCEPT ![request_label(scope)] = counter_inc(@)]
                 ELSE CACHED_GRAPH_REQUESTS
    /\ UNCHANGED <<program, started, ticks, timers, inflight, graphs, oci_graphs, graph,
                   UPSTREAM_SCRAPES, lastGood, lastOutcome, mvars, gvars, wvars>>

\* dumnati: gb_serve_graph and pe_serve_graph look the scraper of the
\* requested stream up and send it GetCachedGraph { stream }; the scraper's
\* Handler<GetCachedGraph>::handle answers.
DumnatiGetCachedGraph(id) ==
    /\ program = DUMNATI
    /\ id \in Scrapers
    /\ started[id]
    /\ reply = None
    /\ LET msg == [stream |-> id]
       IN  reply' = Some([to |-> id, msg |-> msg,
                          result |-> dumnati_get_cached_graph(graph[id], msg)])
    /\ UNCHANGED <<program, started, ticks, timers, inflight, graphs, oci_graphs, graph,
                   UPSTREAM_SCRAPES, CACHED_GRAPH_REQUESTS, lastGood, lastOutcome, mvars, gvars, wvars>>

\* The sender of GetCachedGraph reads the response (addr.send(..).await).
ReadReply ==
    /\ reply # None
    /\ reply' = None
    /\ UNCHANGED <<program, started, ticks, timers, inflight, graphs, oci_graphs, graph,
                   UPSTREAM_SCRAPES, CACHED_GRAPH_REQUESTS, lastGood, lastOutcome, mvars, gvars, wvars>>

\* one of the two fetches of a refresh of scraper id resolves
FetchResolves(id) ==
    \E k \in 1..Len(inflight[id]), assembly_ok \in BOOLEAN, which \in Fetches :
        \E outcome \in FetchOutcomes(id, which) :
            FetchResolved(id, k, which, outcome, assembly_ok)

Next ==
    \/ \E id \in Scrapers : Start(id)
    \/ \E id \in Scrapers : HandleRefreshTick(id)
    \/ \E id \in Scrapers : FetchResolves(id)
    \/ \E id \in Scrapers : TimerElapses(id)
    \/ \E id \in Scrapers, scope \in RequestScopes : GBGetCachedGraph(id, scope)
    \/ \E id \in Scrapers : DumnatiGetCachedGraph(id)
    \/ ReadReply

Spec == Init /\ [][Next]_vars

\* The arbiter runs every actor that has work, timers elapse, and the
\* upstream answers or the request times out: each step of the refresh
\* cycle that stays possible is eventually taken.
Fairness ==
    \A id \in ScraperNames :
        /\ WF_vars(Start(id))
        /\ WF_vars(HandleRefreshTick(id))
        /\ WF_vars(id \in Scrapers /\ FetchResolves(id))
        /\ WF_vars(TimerElapses(id))

LiveSpec == Init /\ [][Next]_vars /\ Fairness

(***************************************************************************)
(* Properties of the scrapers (Spec, LiveSpec)                             *)
(***************************************************************************)
\* a step in which a refresh of scraper id finishes, as an action
RefreshFinishes(id) == Len(inflight'[id]) < Len(inflight[id])

\* a step in which a GetCachedGraph is answered, as an action
RequestAnswered == reply = None /\ reply' # None

FailureKinds == {"fetch_releases", "fetch_updates", "from_metadata"}

\* C1: whenever a refresh of a scraper finishes with a failure of the
\* release-index fetch, of the updates fetch or of the assembly, every
\* cached graph of that scraper is after the step what it was before it.
C1_FailedRefreshKeepsCache ==
    [][\A id \in Scrapers :
          (RefreshFinishes(id) /\ lastOutcome'[id] \in FailureKinds) =>
              /\ program = GB =>
                    graphs'[id] = graphs[id] /\ oci_graphs'[id] = oci_graphs[id]
              /\ program = DUMNATI => graph'[id] = graph[id]]_vars

\* C1 witness: a scraper whose last refresh failed at the updates fetch
\* after an earlier one had succeeded, so that the cache it kept is a
\* graph with nodes.
C1_Witness ==
    \E id \in Scrapers :
        /\ lastOutcome[id] = "fetch_updates"
        /\ is_some(lastGood[id])
        /\ program = GB => graphs[id]["x86_64"][1].json # <<>>
        /\ program = DUMNATI => graph[id].nodes # <<>>

\* the buffer a scraper of fcos-graph-builder has published for a scope:
\* the serialized empty graph until a refresh succeeds, then the
\* serialization of the graph assembled by the last successful refresh
published(id, scope) ==
    IF lastGood[id] = None
    THEN to_vec(Graph_default)
    ELSE to_vec_pretty(commons_from_metadata(lastGood[id].val.releases,
                                             lastGood[id].val.updates, scope))

\* C2: whatever the interleaving of requests with refreshes, a successful
\* GetCachedGraph returns one whole serialization, the initial empty graph
\* or the one the most recent successful refresh published for the scope
\* asked for, never a partly written buffer.
C2_ReadsSeeWholeBuffers ==
    [][(RequestAnswered /\ program = GB /\ is_ok(reply'.val.result)) =>
          /\ is_complete(reply'.val.result.val)
          /\ reply'.val.result.val = published(reply'.val.to, reply'.val.msg.scope)]_vars

\* C2 witness: a request answered with a graph that has nodes while a
\* later refresh is in flight, one of its two fetches already returned.
C2_Witness ==
    /\ program = GB
    /\ reply # None
    /\ is_ok(reply.val.result)
    /\ reply.val.result.val[1].json # <<>>
    /\ \E k \in 1..Len(inflight[reply.val.to]) :
          is_some(inflight[reply.val.to][k].releases) \/ is_some(inflight[reply.val.to][k].updates)

\* C3: starting a scraper puts a RefreshTick in its mailbox, every refresh
\* that finishes, failed or not, arms the timer of the next tick, and so
\* every scraper handles RefreshTick again and again for ever: at all
\* times a refresh will be in flight later, and will have finished later.
C3_TicksForever ==
    /\ [][\A id \in Scrapers :
             (~started[id] /\ started'[id]) => ticks'[id] = ticks[id] + 1]_vars
    /\ [][\A id \in Scrapers :
             RefreshFinishes(id) => timers'[id] = timers[id] + 1]_vars
    /\ \A id \in ScraperNames :
          /\ []<>(id \in Scrapers => Len(inflight[id]) > 0)
          /\ []<>(id \in Scrapers => Len(inflight[id]) = 0)

\* C3 witness: a refresh in flight after one that failed.
C3_Witness ==
    \E id \in Scrapers :
        /\ lastOutcome[id] \in FailureKinds
        /\ Len(inflight[id]) > 0

\* C4: a scraper never has more than one RefreshTick queued in its mailbox,
\* armed on a timer or being handled (its refresh in flight), all taken
\* together.
C4_OneTickAtATime ==
    \A id \in Scrapers : ticks[id] + timers[id] + Len(inflight[id]) <= 1

\* C4 witness: the tick that a finished refresh has armed is back in the
\* mailbox, nothing else pending.
C4_Witness ==
    \E id \in Scrapers :
        /\ lastOutcome[id] # "none"
        /\ ticks[id] = 1
        /\ timers[id] = 0
        /\ inflight[id] = <<>>

\* C5: as long as no refresh of a scraper has succeeded, every buffer the
\* scraper holds is the serialization of the graph with no nodes and no
\* edges (dumnati, which caches the graph itself: that graph).
C5_EmptyUntilFirstSuccess ==
    \A id \in Scrapers :
        lastGood[id] = None =>
            /\ program = GB =>
                  \A arch \in gb_arches :
                      /\ graphs[id][arch] = serialize([nodes |-> <<>>, edges |-> <<>>], 0)
                      /\ oci_graphs[id][arch] = serialize([nodes |-> <<>>, edges |-> <<>>], 0)
            /\ program = DUMNATI => graph[id] = [nodes |-> <<>>, edges |-> <<>>]

\* C5 witness: a scraper of fcos-graph-builder with no successful refresh
\* and as many failed ticks behind it as make its scrape counter wrap, the
\* last one failed in assembly.
C5_Witness ==
    \E id \in Scrapers :
        /\ program = GB
        /\ lastGood[id] = None
        /\ lastOutcome[id] = "from_metadata"
        /\ UPSTREAM_SCRAPES[<<id>>] = 0

\* C6: a GetCachedGraph sent to a started scraper for the scope the scraper
\* serves succeeds, returns what the scraper caches for that scope and
\* changes nothing of the cache, the keys of its maps included.
C6_MatchingRequestServed ==
    [][RequestAnswered =>
          /\ (program = DUMNATI /\ reply'.val.msg.stream = reply'.val.to) =>
                /\ is_ok(reply'.val.result)
                /\ reply'.val.result.val = graph[reply'.val.to]
                /\ graph' = graph
          /\ (program = GB /\ reply'.val.msg.scope.stream = reply'.val.to
                           /\ reply'.val.msg.scope.basearch \in gb_arches) =>
                /\ is_ok(reply'.val.result)
                /\ reply'.val.result.val =
                      IF reply'.val.msg.scope.oci
                      THEN oci_graphs[reply'.val.to][reply'.val.msg.scope.basearch]
                      ELSE graphs[reply'.val.to][reply'.val.msg.scope.basearch]
                /\ graphs' = graphs /\ oci_graphs' = oci_graphs
                /\ DOMAIN graphs'[reply'.val.to] = gb_arches
                /\ DOMAIN oci_graphs'[reply'.val.to] = gb_arches]_vars

\* C7: a GetCachedGraph for another stream than the scraper's, or for a
\* basearch the scraper does not serve, is answered with an error, and the
\* step increments no request counter and changes no cached buffer.
C7_MismatchRejected ==
    [][(RequestAnswered /\ program = GB
          /\ (\/ reply'.val.msg.scope.stream # reply'.val.to
              \/ reply'.val.msg.scope.basearch \notin gb_arches)) =>
          /\ ~is_ok(reply'.val.result)
          /\ CACHED_GRAPH_REQUESTS' = CACHED_GRAPH_REQUESTS
          /\ graphs' = graphs /\ oci_graphs' = oci_graphs]_vars

\* C7 witness: a request for the stream testing answered with an error by
\* the scraper of stable, whose buffers hold graphs with nodes.
C7_Witness ==
    /\ program = GB
    /\ reply # None
    /\ reply.val.msg.scope.stream = "testing"
    /\ reply.val.to = "stable"
    /\ ~is_ok(reply.val.result)
    /\ is_some(lastGood[reply.val.to])

\* the buffer a scraper of fcos-graph-builder caches for a scope
cached_buffer(id, arch, oci) == IF oci THEN oci_graphs[id][arch] ELSE graphs[id][arch]

\* every buffer of the scraper is the serialization of the graph assembled
\* for its scope from the one pair of documents
same_generation(id, pair) ==
    \A arch \in gb_arches, oci \in BOOLEAN :
        cached_buffer(id, arch, oci)
            = to_vec_pretty(commons_table[pair, GraphScope(arch, id, oci)])

\* C34: when a refresh of a scraper finishes, either every buffer of the
\* scraper (each basearch, checksum and OCI) has been replaced by the graph
\* built for its scope from the one fetched pair of documents, or none has
\* changed; and in every state a reader can meet, the buffers of a scraper
\* are all the initial ones or all of one generation.
C34_RefreshAllOrNothing ==
    [][\A id \in Scrapers : program = GB =>
          /\ RefreshFinishes(id) =>
                \/ \E pair \in UpstreamPairs : same_generation(id, pair)'
                \/ graphs'[id] = graphs[id] /\ oci_graphs'[id] = oci_graphs[id]
          /\ \/ \E pair \in UpstreamPairs : same_generation(id, pair)'
             \/ \A arch \in gb_arches, oci \in BOOLEAN :
                   cached_buffer(id, arch, oci)' = empty_bytes]_vars

\* C34 witness: every buffer is of the generation of the latest successful
\* refresh, and a later refresh has failed in assembly and left them alone.
C34_Witness ==
    \E id \in Scrapers :
        /\ program = GB
        /\ lastOutcome[id] = "from_metadata"
        /\ lastGood[id] # None
        /\ same_generation(id, lastGood[id].val)
        /\ Len(lastGood[id].val.releases) = MaxReleases - 1
        /\ UPSTREAM_SCRAPES[<<id>>] = 1

\* the entries of the updates document for the version of node index
matching_entries(g, index) ==
    SelectSeq(updates.releases,
              LAMBDA entry : entry.version = g.nodes[index + 1].version)

\* the reason the last of the entries having the record gives, "generic" for
\* an empty one
upstream_reason(entries, field) ==
    LET having == SelectSeq(entries, LAMBDA entry : is_some(entry.metadata[field]))
        reason == having[Len(having)].metadata[field].val.reason
    IN  IF reason = "" THEN "generic" ELSE reason

\* the marker and, where there is one, the reason key of a record
marker_of(field) ==
    CASE field = "barrier" -> BARRIER
      [] field = "deadend" -> DEADEND
      [] field = "rollout" -> ROLLOUT

reason_key_of(field) ==
    CASE field = "barrier" -> BARRIER_REASON
      [] field = "deadend" -> DEADEND_REASON

\* C13: a node of an assembled graph carries barrier, deadend or rollout,
\* with the value "true", exactly when an entry of the updates document for
\* its version has that record; barrier_reason and deadend_reason are the
\* upstream reason, or "generic" for an empty one; a node whose version has
\* no entry carries none of these keys.
C13_MarkersFollowUpdates ==
    Assembled =>
        \A i \in node_indices(cur.val) :
            LET md == cur.val.nodes[i + 1].metadata
                entries == matching_entries(cur.val, i)
            IN  /\ \A field \in {"barrier", "deadend", "rollout"} :
                      LET has == \E k \in 1..Len(entries) :
                                     is_some(entries[k].metadata[field])
                      IN  /\ contains_key(md, marker_of(field)) <=> has
                          /\ has => get(md, marker_of(field)) = Some("true")
                /\ \A field \in {"barrier", "deadend"} :
                      IF contains_key(md, marker_of(field))
                      THEN get(md, reason_key_of(field))
                              = Some(upstream_reason(entries, field))
                      ELSE ~contains_key(md, reason_key_of(field))
                /\ entries = <<>> =>
                      {BARRIER, BARRIER_REASON, DEADEND, DEADEND_REASON, ROLLOUT}
                          \cap DOMAIN md = {}

\* C13 witness: an assembled graph with a barrier whose empty reason became
\* "generic", a dead-end with its upstream reason, and a release without
\* entry in an updates document that has an entry for another version.
C13_Witness ==
    /\ Assembled
    /\ \E i, j, k \in node_indices(cur.val) :
          /\ get(cur.val.nodes[i + 1].metadata, BARRIER_REASON) = Some("generic")
          /\ get(cur.val.nodes[j + 1].metadata, DEADEND_REASON) = Some("eol")
          /\ matching_entries(cur.val, k) = <<>>
          /\ Len(updates.releases) > 0

\* the nodes whose deadend key has the value "true"
true_deadends(g) ==
    {i \in node_indices(g) : get(g.nodes[i + 1].metadata, DEADEND) = Some("true")}

\* C14: filter_deadends returns the nodes it was given and exactly the edges
\* it was given whose source is not a node with deadend = "true"; an edge
\* entering a dead-end from a node that is no dead-end stays.
C14_FilterDeadendsExact ==
    [][op'.name = "filter_deadends" =>
          /\ cur'.val.nodes = cur.val.nodes
          /\ edge_set(cur'.val)
                = {e \in edge_set(cur.val) : e[1] \notin true_deadends(cur.val)}
          /\ Len(cur'.val.edges) = Cardinality(edge_set(cur'.val))
          /\ \A e \in edge_set(cur.val) :
                (e[2] \in true_deadends(cur.val) /\ e[1] \notin true_deadends(cur.val))
                    => e \in edge_set(cur'.val)]_vars

\* C14 witness: after filter_deadends, the graph still has an edge entering
\* a dead-end, and an edge of the assembled graph leaving a dead-end is gone.
C14_Witness ==
    /\ is_some(cur)
    /\ op.name = "filter_deadends"
    /\ \E e \in edge_set(cur.val) : e[2] \in true_deadends(cur.val)
    /\ \E e \in edge_set(from_metadata(releases, updates).val) :
          e[1] \in true_deadends(cur.val) /\ e \notin edge_set(cur.val)

\* C21: after a successful pick_basearch for the architecture a, no metadata
\* key of any node starts with the architecture prefix; every node that had
\* an arch.<a> entry has that entry, which is not empty, as its payload and
\* a scheme key of value "checksum" or "oci"; the edges are unchanged.
C21_ArchSelected ==
    [][(op'.name = "pick_basearch" /\ op'.ok) =>
          /\ cur'.val.edges = cur.val.edges
          /\ Len(cur'.val.nodes) = Len(cur.val.nodes)
          /\ \A i \in 1..Len(cur.val.nodes) :
                LET before == cur.val.nodes[i]
                    after == cur'.val.nodes[i]
                    key == arch_key(op'.basearch)
                IN  /\ \A k \in DOMAIN after.metadata : ~starts_with(k, ARCH_PREFIX)
                    /\ contains_key(before.metadata, key) =>
                          /\ after.payload = before.metadata[key]
                          /\ after.payload # ""
                          /\ get(after.metadata, SCHEME) \in {Some("checksum"), Some("oci")}]_vars

\* C21 witness: after pick_basearch for x86_64, a release that also had an
\* aarch64 commit has its x86_64 checksum as payload and no arch key left.
C21_Witness ==
    /\ is_some(cur)
    /\ op.name = "pick_basearch" /\ op.ok
    /\ Len(cur.val.nodes) >= 2
    /\ Len(releases[2].commits) = 3
    /\ cur.val.nodes[2].payload = "sha-x86_64-1"
    /\ get(cur.val.nodes[2].metadata, SCHEME) = Some("checksum")
    /\ ~contains_key(cur.val.nodes[2].metadata, arch_key("aarch64"))

\* C22: pick_basearch succeeds for every basearch a request can carry, and
\* a node without an entry for that architecture keeps an empty payload.
C22_EveryBasearchSelected ==
    [][op'.name = "pick_basearch" =>
          /\ op'.ok
          /\ \A i \in 1..Len(cur.val.nodes) :
                ~contains_key(cur.val.nodes[i].metadata, arch_key(op'.basearch))
                    => cur'.val.nodes[i].payload = cur.val.nodes[i].payload]_vars

\* C23: filter_deadends applied to its own result returns it unchanged,
\* nodes and edges.
C23_FilterDeadendsIdempotent ==
    [][op'.name = "filter_deadends" =>
          /\ filter_deadends(cur'.val).nodes = cur'.val.nodes
          /\ filter_deadends(cur'.val).edges = cur'.val.edges]_vars

\* C23 witness: filter_deadends has removed an edge of the assembled graph
\* and left one whose source is reached by no edge any more.
C23_Witness ==
    /\ is_some(cur)
    /\ op.name = "filter_deadends"
    /\ Len(cur.val.edges) < Len(from_metadata(releases, updates).val.edges)
    /\ \E e \in edge_set(cur.val) :
          /\ e[1] > 0
          /\ \A f \in edge_set(cur.val) : f[2] # e[1]

\* C36: throttling a graph and then filtering its dead-ends gives the same
\* nodes and the same edges as filtering its dead-ends and then throttling
\* it, for the same wariness and evaluation time.
C36_FiltersCommute ==
    [][op'.name = "throttle_rollouts" =>
          LET throttled_last ==
                  throttle_rollouts(filter_deadends(cur.val), op'.wariness, op'.now)
          IN  /\ filter_deadends(cur'.val).nodes = throttled_last.nodes
              /\ filter_deadends(cur'.val).edges = throttled_last.edges]_vars

\* C36 witness: throttle_rollouts has removed an edge towards a rollout from
\* a node that is no dead-end, and the graph still has an edge leaving a
\* dead-end for filter_deadends to remove.
C36_Witness ==
    /\ is_some(cur)
    /\ op.name = "throttle_rollouts"
    /\ filter_deadends(cur.val).edges # cur.val.edges
    /\ \E e \in edge_set(from_metadata(releases, updates).val) \ edge_set(cur.val) :
          /\ e[2] \in rollouts_of(cur.val)
          /\ e[1] \notin deadends_of(cur.val)

\* C24: pick_basearch applied again, for the same basearch, to its own
\* result changes no payload, no scheme, no other metadata and no edge.
C24_PickBasearchIdempotent ==
    [][(op'.name = "pick_basearch" /\ op'.ok) =>
          pick_basearch(cur'.val, op'.basearch) = Ok(cur'.val)]_vars

\* C24 witness: after pick_basearch a node has a payload and a scheme and
\* no entry for the architecture any more.
C24_Witness ==
    /\ is_some(cur)
    /\ op.name = "pick_basearch" /\ op.ok
    /\ Len(cur.val.nodes) >= 1
    /\ cur.val.nodes[1].payload = "sha-x86_64-0"
    /\ contains_key(cur.val.nodes[1].metadata, SCHEME)
    /\ ~contains_key(cur.val.nodes[1].metadata, arch_key(op.basearch))

(***************************************************************************)
(* The assembler alone (AssemblySpec): release indexes of up to MaxNodes   *)
(* releases with every placement of barriers and rollouts, and one long    *)
(* index whose positions need two digits.                                  *)
(***************************************************************************)
MaxNodes == 5
LongList == 11
EdgeKinds == {"absent", "barrier", "rollout", "barrier+rollout"}

AssemblyInit ==
    /\ NoScraper
    /\ NoRequest
    /\ cur = None
    /\ op = [name |-> "none"]
    /\ \/ \E n \in 0..MaxNodes :
             \E kinds \in [1..n -> EdgeKinds] :
                /\ releases = make_releases(n)
                /\ updates = make_updates("testing", kinds)
       \/ /\ releases = make_releases(LongList)
          /\ updates = make_updates("testing",
                 [i \in 1..LongList |-> IF i = LongList THEN "barrier" ELSE "absent"])

AssemblyNext == Assemble

AssemblySpec == AssemblyInit /\ [][AssemblyNext]_vars

\* the greatest barrier index below x, or 0
barrier_below(g, x) ==
    LET below == {b \in barriers_of(g) : b < x}
    IN  IF below = {} THEN 0 ELSE Max(below)

\* the edges the specification asks for
reference_edges(g) ==
    {e \in node_indices(g) \X node_indices(g) :
        /\ e[2] \in rollouts_of(g) \cup barriers_of(g)
        /\ barrier_below(g, e[2]) <= e[1]
        /\ e[1] < e[2]}

\* C11: the edges of an assembled graph are exactly the pairs (i, r) with r
\* a rollout and (i, b) with b a barrier that is no rollout, i ranging from
\* the greatest barrier below the target (or 0) up to the target excluded,
\* each once; a barrier at 2 and a rollout at 4 over five releases give
\* (0,2), (1,2), (2,4), (3,4) and nothing else.
C11_ExactEdges ==
    Assembled =>
        /\ edge_set(cur.val) = reference_edges(cur.val)
        /\ Len(cur.val.edges) = Cardinality(reference_edges(cur.val))
        /\ (Len(cur.val.nodes) = 5 /\ barriers_of(cur.val) = {2}
               /\ rollouts_of(cur.val) = {4}) =>
              edge_set(cur.val) = {<<0, 2>>, <<1, 2>>, <<2, 4>>, <<3, 4>>}

\* C11 witness: the graph assembled from five releases, a barrier at 2 and
\* a rollout at 4.
C11_Witness ==
    /\ Assembled
    /\ Len(cur.val.nodes) = 5
    /\ barriers_of(cur.val) = {2}
    /\ rollouts_of(cur.val) = {4}
    /\ Len(cur.val.edges) = 4

\* C35: in an assembled graph every node older than some barrier or rollout
\* node has an outgoing edge, and every node from the previous barrier of a
\* barrier b (or from index 0) up to b excluded has an edge to b.
C35_NoNodeStranded ==
    Assembled =>
        LET g == cur.val
        IN  /\ \A i \in node_indices(g) :
                  (\E t \in barriers_of(g) \cup rollouts_of(g) : i < t) =>
                      \E e \in edge_set(g) : e[1] = i
            /\ \A b \in barriers_of(g) :
                  \A i \in barrier_below(g, b)..(b - 1) : <<i, b>> \in edge_set(g)

\* C35 witness: five releases with barriers at 1 and 3, the second one a
\* rollout in progress; node 4, newer than every target, has no edge.
C35_Witness ==
    /\ Assembled
    /\ Len(cur.val.nodes) = 5
    /\ barriers_of(cur.val) = {1, 3}
    /\ rollouts_of(cur.val) = {3}
    /\ edge_set(cur.val) = {<<0, 1>>, <<1, 3>>, <<2, 3>>}

\* the decimal strings of 0..19
Decimals ==
    <<"0", "1", "2", "3", "4", "5", "6", "7", "8", "9",
      "10", "11", "12", "13", "14", "15", "16", "17", "18", "19">>

\* C12: an assembled graph has one node per release, in the order of the
\* release index, and node i carries the decimal string of i under the
\* age_index key.
C12_OneNodePerRelease ==
    Assembled =>
        /\ Len(cur.val.nodes) = Len(releases)
        /\ \A i \in 0..(Len(releases) - 1) :
              /\ cur.val.nodes[i + 1].version = releases[i + 1].version
              /\ get(cur.val.nodes[i + 1].metadata, AGE_INDEX) = Some(Decimals[i + 1])

\* C12 witness: the graph assembled from the long release index, whose last
\* node has a two-digit age index.
C12_Witness ==
    /\ Assembled
    /\ Len(cur.val.nodes) = LongList
    /\ Len(cur.val.nodes[LongList].metadata[AGE_INDEX]) = 2

(***************************************************************************)
(* throttle_rollouts alone (ThrottleSpec): a graph of three nodes, the     *)
(* second a rollout whose start_epoch, start_value and duration_minutes    *)
(* strings are any of a few well-formed and malformed ones, the third a    *)
(* plain node or a rollout, throttled at any wariness and time.            *)
(***************************************************************************)
EpochStrings == {None, Some("120"), Some("-120"), Some("soon")}
ValueStrings ==
    {None, Some("0"), Some("0.5"), Some("1"), Some("-0.5"), Some("1.5"), Some("half")}
DurationStrings == {None, Some("2"), Some("1"), Some("0"), Some("long")}

RolloutStrings(start_epoch, start_value, duration_minutes) ==
    [rollout |-> TRUE, start_epoch |-> start_epoch, start_value |-> start_value,
     duration_minutes |-> duration_minutes]
PlainNode ==
    [rollout |-> FALSE, start_epoch |-> None, start_value |-> None,
     duration_minutes |-> None]

SecondNodes ==
    {RolloutStrings(e, v, d) :
        e \in EpochStrings, v \in ValueStrings, d \in DurationStrings}
ThirdNodes ==
    {PlainNode,
     RolloutStrings(None, None, None),
     RolloutStrings(Some("120"), Some("0"), Some("2")),
     RolloutStrings(None, Some("1"), None)}

\* insert under key when the value is there
insert_some(map, key, value) ==
    IF is_some(value) THEN insert(map, key, value.val) ELSE map

\* the node at position index with the given rollout strings
throttle_node(index, params) ==
    LET base == [k \in {AGE_INDEX} |-> nat_to_string(index)]
        marked == IF params.rollout THEN insert(base, ROLLOUT, "true") ELSE base
    IN  CincinnatiPayload(
            release_version(index),
            insert_some(insert_some(insert_some(marked,
                START_EPOCH, params.start_epoch),
                START_VALUE, params.start_value),
                DURATION, params.duration_minutes),
            "")

throttle_graph(second, third) ==
    [nodes |-> <<throttle_node(0, PlainNode), throttle_node(1, second),
                 throttle_node(2, third)>>,
     edges |-> <<<<0, 1>>, <<0, 2>>, <<1, 2>>>>]

\* evaluation times: before 120, at 120, within a ramp of one minute, at the
\* middle and at the end of a ramp of two minutes, and after it
ThrottleTimes == {60, 120, 150, 180, 240, 300}

ThrottleInit ==
    /\ NoScraper
    /\ NoRequest
    /\ releases = <<>>
    /\ updates = [stream |-> "testing", releases |-> <<>>]
    /\ \E second \in SecondNodes, third \in ThirdNodes :
          cur = Some(throttle_graph(second, third))
    /\ op = [name |-> "none"]

\* a request throttles the graph it got from the graph builder, once
ServeThrottled(client_wariness, now) ==
    /\ op.name = "none"
    /\ ThrottleRollouts(client_wariness, now)

ThrottleNext ==
    \E w \in Wariness, now \in ThrottleTimes : ServeThrottled(w, now)

ThrottleSpec == ThrottleInit /\ [][ThrottleNext]_vars

\* the rollout nodes throttle_rollouts hides from a client
hidden_nodes(g, client_wariness, now) ==
    {i \in rollouts_of(g) :
        hides(client_wariness, throttling(g.nodes[i + 1], now))}

\* the throttling is below the wariness (in tenths)
below(thr, client_wariness) == thr.num < client_wariness * thr.den

\* C15: the edges throttle_rollouts returns are exactly the edges it was
\* given whose target is not a rollout node with a computed throttling
\* below the wariness; no edge kept targets such a rollout.
C15_ThrottleExact ==
    [][op'.name = "throttle_rollouts" =>
          LET throttled == {i \in rollouts_of(cur.val) :
                               below(throttling(cur.val.nodes[i + 1], op'.now),
                                     op'.wariness)}
          IN  /\ edge_set(cur'.val)
                    = {e \in edge_set(cur.val) : e[2] \notin throttled}
              /\ \A e \in edge_set(cur'.val) : e[2] \notin throttled]_vars

\* C15 witness: a throttled graph that lost the edges to one rollout and
\* kept the edge to another one whose throttling equals the wariness.
C15_Witness ==
    /\ is_some(cur)
    /\ op.name = "throttle_rollouts"
    /\ op.wariness = 10
    /\ edge_set(cur.val) = {<<0, 2>>, <<1, 2>>}
    /\ 2 \in rollouts_of(cur.val)
    /\ throttling(cur.val.nodes[3], op.now) = [num |-> 10, den |-> 1]

\* C16: whatever strings the rollout nodes carry and whatever the time,
\* throttle_rollouts with wariness 0 removes no edge: it returns the graph
\* it was given.
C16_ZeroWarinessRemovesNothing ==
    [][(op'.name = "throttle_rollouts" /\ op'.wariness = 0) => cur' = cur]_vars

\* What the strings of ThrottleSpec stand for: the start in seconds, the
\* start value in tenths, the duration in minutes (None when the string is
\* missing or no number).
epoch_meant(str) ==
    CASE str = Some("120") -> 120
      [] str = Some("-120") -> 0 - 120
      [] OTHER -> 0

value_meant(str) ==
    CASE str = Some("0.5") -> 5
      [] str = Some("1") -> 10
      [] str = Some("-0.5") -> 0 - 5
      [] str = Some("1.5") -> 15
      [] OTHER -> 0

duration_meant(str) ==
    CASE str = Some("2") -> Some(2)
      [] str = Some("1") -> Some(1)
      [] str = Some("0") -> Some(0)
      [] OTHER -> None

start_of(release) == epoch_meant(get(release.metadata, START_EPOCH))
value_of(release) == value_meant(get(release.metadata, START_VALUE))
duration_of(release) == duration_meant(get(release.metadata, DURATION))

\* Whether a client of wariness w (in tenths) keeps the edges to a rollout
\* that ramps from value at start to 1 at end: w > throttling hides, with
\* throttling 0 before start, 1 after end and
\* value + (1 - value) * (now - start) / (end - start) in between.
ramp_keeps(w, now, start, value, end) ==
    IF now < start THEN ~(w > 0)
    ELSE IF now > end THEN ~(w > 10)
    ELSE ~(w * (end - start) > value * (end - start) + (10 - value) * (now - start))

\* the edges of g towards rollout nodes that have a duration
ramp_edges(g) ==
    {e \in edge_set(g) :
        e[2] \in rollouts_of(g) /\ is_some(duration_of(g.nodes[e[2] + 1]))}

fixed_edges(g) ==
    {e \in edge_set(g) :
        e[2] \in rollouts_of(g) /\ ~is_some(duration_of(g.nodes[e[2] + 1]))}

\* C18: for a rollout node without a duration that parses, the throttling is
\* 0 before start_epoch and start_value at every time from start_epoch on:
\* whether a client of a given wariness keeps the edge is the same at all
\* times from start_epoch on.
C18_NoDurationNoProgress ==
    [][op'.name = "throttle_rollouts" =>
          \A e \in fixed_edges(cur.val) :
              LET release == cur.val.nodes[e[2] + 1]
                  start == start_of(release)
                  kept == e \in edge_set(cur'.val)
              IN  /\ kept <=> ~(op'.wariness >
                                   (IF op'.now < start THEN 0 ELSE value_of(release)))
                  /\ op'.now >= start =>
                        \A later \in ThrottleTimes :
                            later >= start =>
                               (kept <=> e \in edge_set(
                                   throttle_rollouts(cur.val, op'.wariness, later)))]_vars

\* C18 witness: long after its start, a rollout at 0.5 whose duration is no
\* number is still hidden from a client of wariness 0.6.
C18_Witness ==
    /\ is_some(cur)
    /\ op.name = "throttle_rollouts"
    /\ op.wariness = 6
    /\ op.now = 300
    /\ get(cur.val.nodes[2].metadata, START_EPOCH) = Some("120")
    /\ get(cur.val.nodes[2].metadata, START_VALUE) = Some("0.5")
    /\ get(cur.val.nodes[2].metadata, DURATION) = Some("long")
    /\ <<0, 1>> \notin edge_set(cur.val)

\* C19: for a given graph and time, a less wary client keeps every edge a
\* more wary one keeps: with w1 <= w2, the edges of throttle_rollouts at w2
\* are among those of throttle_rollouts at w1.
C19_MonotoneInWariness ==
    [][op'.name = "throttle_rollouts" =>
          \A w1 \in Wariness :
              w1 <= op'.wariness =>
                  edge_set(cur'.val)
                      \subseteq edge_set(throttle_rollouts(cur.val, w1, op'.now))]_vars

\* C19 witness: a client of wariness 1 has lost the edge to a rollout that
\* a client of wariness 0.4 keeps at the same time.
C19_Witness ==
    /\ is_some(cur)
    /\ op.name = "throttle_rollouts"
    /\ op.wariness = 10
    /\ <<0, 1>> \notin edge_set(cur.val)
    /\ 1 \in rollouts_of(cur.val)
    /\ ~hides(4, throttling(cur.val.nodes[2], op.now))

\* C20: throttle_rollouts returns the nodes it was given, unchanged and in
\* the same order, and removes only edges whose target is hidden: an edge
\* from a hidden rollout node to a node that is not hidden stays.
C20_OnlyIncomingEdgesRemoved ==
    [][op'.name = "throttle_rollouts" =>
          LET hidden == hidden_nodes(cur.val, op'.wariness, op'.now)
          IN  /\ cur'.val.nodes = cur.val.nodes
              /\ \A e \in edge_set(cur.val) :
                    e[2] \notin hidden => e \in edge_set(cur'.val)
              /\ \A e \in edge_set(cur.val) :
                    (e[1] \in hidden /\ e[2] \notin hidden) => e \in edge_set(cur'.val)
              /\ edge_set(cur'.val) \subseteq edge_set(cur.val)]_vars

\* C20 witness: the second node is hidden and has lost its incoming edge,
\* the third, a rollout too, is not, and the edge between them is there.
C20_Witness ==
    /\ is_some(cur)
    /\ op.name = "throttle_rollouts"
    /\ hidden_nodes(cur.val, op.wariness, op.now) = {1}
    /\ 2 \in rollouts_of(cur.val)
    /\ edge_set(cur.val) = {<<0, 2>>, <<1, 2>>}
    /\ Len(cur.val.nodes) = 3

(***************************************************************************)
(* commons/src/web.rs and the handlers of /v1/graph of the graph builders  *)
(* (fcos-graph-builder/src/main.rs, dumnati/src/main.rs)                   *)
(***************************************************************************)
\* struct GraphScope { basearch, stream } of commons/src/web.rs
WebScope(basearch, stream) == [basearch |-> basearch, stream |-> stream]

\* (an empty stream let through: a variant used to test the claims)
validate_scope_lenient(basearch, stream, scope_allowlist) ==
    IF ~is_some(basearch) THEN Err("missing basearch")
    ELSE IF basearch.val = "" THEN Err("empty basearch")
    ELSE IF ~is_some(stream) THEN Err("missing stream")
    ELSE LET scope == WebScope(basearch.val, stream.val)
         IN  IF is_some(scope_allowlist) /\ scope \notin scope_allowlist.val
             THEN Err("scope not allowed")
             ELSE Ok(scope)

\* GraphQuery::validate_scope
validate_scope(basearch, stream, scope_allowlist) ==
    IF ~is_some(basearch) THEN Err("missing basearch")
    ELSE IF basearch.val = "" THEN Err("empty basearch")
    ELSE IF ~is_some(stream) THEN Err("missing stream")
    ELSE IF stream.val = "" THEN Err("empty stream")
    ELSE LET scope == WebScope(basearch.val, stream.val)
         IN  IF is_some(scope_allowlist) /\ scope \notin scope_allowlist.val
             THEN Err("scope not allowed")
             ELSE Ok(scope)

\* Option<String>::unwrap_or_default
unwrap_or_default(o) == IF is_some(o) THEN o.val ELSE ""

\* HTTP status codes
BadRequest == 400
NotFound == 404
InternalServerError == 500
HttpOk == 200

\* worker threads handling requests at the same time
MaxWorkers == 2
Workers == 1..MaxWorkers

\* a worker without a request
Idle == [pc |-> "idle"]

\* a request answered: its query, the status, and the calls the handler
\* made on the way, in order
Answered(h, status) ==
    [pc |-> "done", query |-> h.query, status |-> status, calls |-> h.calls]

\* fcos-graph-builder gb_serve_graph, up to addr.send(..).await
gb_serve_graph(query) ==
    LET r == validate_scope(query.basearch, query.stream, service.scope_filter)
        validated == [pc |-> "send", query |-> query, calls |-> <<"validate_scope">>]
        looked == [validated EXCEPT !.calls = @ \o <<"scrapers.get">>]
    IN  IF ~is_ok(r) THEN Answered(validated, BadRequest)
        ELSE IF r.val \notin service.scrapers THEN Answered(looked, NotFound)
        ELSE [looked EXCEPT !.calls = @ \o <<"addr.send">>]

\* dumnati gb_serve_graph, up to addr.send(..).await
dumnati_gb_serve_graph(query) ==
    LET stream == unwrap_or_default(query.stream)
        looked == [pc |-> "send", query |-> query, calls |-> <<"scrapers.get">>]
    IN  IF stream \notin service.scrapers THEN Answered(looked, NotFound)
        ELSE [looked EXCEPT !.calls = @ \o <<"addr.send">>]

\* the rest of gb_serve_graph once the scraper has answered (or the mailbox
\* has failed): `??` turns both errors into an error response
gb_graph_replied(h, answer) ==
    IF ~is_ok(answer) THEN Answered(h, InternalServerError)
    ELSE IF service.program = DUMNATI
    THEN LET arch_graph == pick_basearch(answer.val, unwrap_or_default(h.query.basearch))
         IN  IF is_ok(arch_graph)
             THEN Answered([h EXCEPT !.calls = @ \o <<"pick_basearch", "filter_deadends">>],
                           HttpOk)
             ELSE Answered([h EXCEPT !.calls = @ \o <<"pick_basearch">>],
                           InternalServerError)
    ELSE Answered(h, HttpOk)

(***************************************************************************)
(* The graph builders answering /v1/graph (WebSpec)                        *)
(***************************************************************************)
QueryBasearches == {None, Some(""), Some("x86_64"), Some("aarch64")}
QueryStreams == {None, Some(""), Some("stable"), Some("rawhide")}
GraphQueries ==
    {[basearch |-> b, stream |-> st] : b \in QueryBasearches, st \in QueryStreams}

\* AppState.scope_filter: main sets None; the tests of validate_scope pass
\* an empty and a one-element allowlist
ScopeFilters == {None, Some({}), Some({WebScope("x86_64", "stable")})}
\* service_settings.scopes of fcos-graph-builder
ConfiguredScopes ==
    {{}, {WebScope("x86_64", "stable")},
     {WebScope("x86_64", "stable"), WebScope("aarch64", "stable")}}

\* what the scraper answers to GetCachedGraph: a graph, or an error
ScraperAnswers == {Ok(Graph_default), Err("unexpected stream")}

WebInit ==
    /\ NoScraper
    /\ NoGraphOp
    /\ \/ \E filter \in ScopeFilters, scopes \in ConfiguredScopes :
             service = [program |-> GB, scope_filter |-> filter, scrapers |-> scopes]
       \/ service = [program |-> DUMNATI, scope_filter |-> None, scrapers |-> streams_cfg]
    /\ handlers = [w \in Workers |-> Idle]
    /\ population = {}
    /\ V1_GRAPH_INCOMING_REQS = 0
    /\ UNIQUE_IDS = 0
    /\ ROLLOUT_WARINESS = <<>>

\* a request arrives at a worker and is handled up to its first await
GBServeGraph(w, query) ==
    /\ handlers[w].pc = "idle"
    /\ handlers' = [handlers EXCEPT ![w] =
          IF service.program = GB THEN gb_serve_graph(query)
          ELSE dumnati_gb_serve_graph(query)]
    /\ UNCHANGED <<service, population, V1_GRAPH_INCOMING_REQS, UNIQUE_IDS,
                   ROLLOUT_WARINESS, gvars, svars>>

\* the scraper's answer arrives and the response is built
GBGraphReplied(w, answer) ==
    /\ handlers[w].pc = "send"
    /\ handlers' = [handlers EXCEPT ![w] = gb_graph_replied(@, answer)]
    /\ UNCHANGED <<service, population, V1_GRAPH_INCOMING_REQS, UNIQUE_IDS,
                   ROLLOUT_WARINESS, gvars, svars>>

WebNext ==
    \/ \E w \in Workers, query \in GraphQueries : GBServeGraph(w, query)
    \/ \E w \in Workers, answer \in ScraperAnswers : GBGraphReplied(w, answer)

WebSpec == WebInit /\ [][WebNext]_vars

\* the requests answered so far
answered == {w \in DOMAIN handlers : handlers[w].pc = "done"}

\* basearch and stream are both there and not empty
well_formed(query) ==
    /\ query.basearch \notin {None, Some("")}
    /\ query.stream \notin {None, Some("")}

\* C28: scope validation succeeds exactly when basearch and stream are both
\* present and not empty and, with an allowlist, the scope is in it (an
\* empty allowlist rejects everything, no allowlist nothing); the graph
\* builder answers every request it rejects with 400, having looked up no
\* scraper and sent no message.
C28_ScopeValidation ==
    service.program = GB =>
        \A w \in answered :
            LET h == handlers[w]
                accepted == /\ well_formed(h.query)
                            /\ is_some(service.scope_filter) =>
                                  WebScope(h.query.basearch.val, h.query.stream.val)
                                      \in service.scope_filter.val
            IN  /\ is_ok(validate_scope(h.query.basearch, h.query.stream,
                                        service.scope_filter)) <=> accepted
                /\ ~accepted <=> h.status = BadRequest
                /\ ~accepted => h.calls = <<"validate_scope">>
                /\ service.scope_filter = Some({}) => h.status = BadRequest
                /\ (service.scope_filter = None /\ well_formed(h.query))
                       => h.status # BadRequest

\* C28 witness: fcos-graph-builder has answered 400 to a well-formed request
\* whose scope is not in the allowlist, and another worker has got past
\* validation.
C28_Witness ==
    /\ service.program = GB
    /\ \E w, v \in answered :
          /\ well_formed(handlers[w].query)
          /\ handlers[w].status = BadRequest
          /\ service.scope_filter # Some({})
          /\ handlers[v].status = HttpOk

\* C29 for fcos-graph-builder: 404 is the answer exactly when the scope is
\* valid and no scraper is configured for it.
C29_NotFoundForUnconfiguredScope ==
    service.program = GB =>
        \A w \in answered :
            LET h == handlers[w]
                r == validate_scope(h.query.basearch, h.query.stream, service.scope_filter)
            IN  /\ h.status = NotFound <=> (is_ok(r) /\ r.val \notin service.scrapers)
                /\ ~well_formed(h.query) => h.status \notin {NotFound, InternalServerError}

\* C29: in both graph builders, 404 is the answer exactly when the scope is
\* valid and no scraper is configured for it, and a request whose basearch
\* or stream is missing or empty gets neither 404 nor a server error.
C29_NotFoundOnlyForValidScope ==
    \A w \in answered :
        LET h == handlers[w]
        IN  /\ h.status = NotFound => well_formed(h.query)
            /\ ~well_formed(h.query) => h.status \notin {NotFound, InternalServerError}

(***************************************************************************)
(* fcos-policy-engine/src/main.rs: compute_wariness, pe_record_metrics and *)
(* pe_serve_graph.  An f64 is NaN, an infinity, or a finite value counted  *)
(* in millionths.                                                          *)
(***************************************************************************)
F64_NAN == [kind |-> "nan"]
F64_INFINITY(sign) == [kind |-> "inf", sign |-> sign]
f64(micro) == [kind |-> "finite", micro |-> micro]
F64_ONE == 10^6

\* a < b, for operands that are not NaN
f64_lt(a, b) ==
    CASE a.kind = "inf" -> a.sign < 0 /\ b # a
      [] b.kind = "inf" -> b.sign > 0
      [] OTHER -> a.micro < b.micro

\* f64::max and f64::min: when one operand is NaN the other is returned
f64_max(a, b) ==
    IF a.kind = "nan" THEN b ELSE IF b.kind = "nan" THEN a
    ELSE IF f64_lt(a, b) THEN b ELSE a
f64_min(a, b) ==
    IF a.kind = "nan" THEN b ELSE IF b.kind = "nan" THEN a
    ELSE IF f64_lt(b, a) THEN b ELSE a

\* str::parse::<f64>, with the spellings of NaN and of the infinities
f64_from_str(s) ==
    CASE s \in {"NaN", "nan"} -> Ok(F64_NAN)
      [] s \in {"inf", "+inf", "infinity"} -> Ok(F64_INFINITY(1))
      [] s \in {"-inf", "-infinity"} -> Ok(F64_INFINITY(-1))
      [] OTHER -> IF is_ok(parse_f64(s))
                  THEN Ok(f64(parse_f64(s).val * (F64_ONE \div 10)))
                  ELSE Err("ParseFloatError")

\* The 16 leading bits of DefaultHasher::new() (SipHash-1-3 with keys 0, 0)
\* fed the bytes of the string and the byte 0xff, for the node UUIDs of the
\* model.
sip13_leading_bits(s) ==
    CASE s = "" -> 12352
      [] s = "a" -> 29083
      [] s = "node-112747" -> 0
      [] s = "node-125724" -> 65535
      [] s = "node-223" -> 46115
      [] s = "node-349" -> 46115

\* uuid.hash(&mut hasher); hasher.finish(), as a u64 of IntBits bits
hasher_finish(uuid) == sip13_leading_bits(uuid) \div 2^(16 - IntBits)

COMPUTED_MIN == 1
COMPUTED_MAX == F64_ONE

\* (digest as f64) / (std::u64::MAX as f64), in millionths (rounded down)
scale_down(digest) ==
    LET thousandths == (digest * 1000) \div U64_MAX
        rest == (digest * 1000) % U64_MAX
    IN  f64(thousandths * 1000 + (rest * 1000) \div U64_MAX)

\* (the input returned as parsed: a variant used to test the claims)
compute_wariness_unclamped(params) ==
    LET input == f64_from_str(unwrap_or_default(params.rollout_wariness))
    IN  IF is_ok(input)
        THEN input.val
        ELSE LET uuid == unwrap_or_default(params.node_uuid)
                 digest == hasher_finish(uuid)
                 scaled == scale_down(digest)
             IN  f64_min(f64_max(scaled, f64(COMPUTED_MIN)), f64(COMPUTED_MAX))

\* (a hasher seeded with the number of UUIDs counted so far: a variant used
\* to test the claims)
compute_wariness_seeded(params) ==
    LET input == f64_from_str(unwrap_or_default(params.rollout_wariness))
    IN  IF is_ok(input)
        THEN f64_min(f64_max(input.val, f64(0)), f64(F64_ONE))
        ELSE LET uuid == unwrap_or_default(params.node_uuid)
                 digest == (hasher_finish(uuid) + 1000 * UNIQUE_IDS) % (U64_MAX + 1)
                 scaled == scale_down(digest)
             IN  f64_min(f64_max(scaled, f64(COMPUTED_MIN)), f64(COMPUTED_MAX))

\* compute_wariness
compute_wariness(params) ==
    LET input == f64_from_str(unwrap_or_default(params.rollout_wariness))
    IN  IF is_ok(input)
        THEN f64_min(f64_max(input.val, f64(0)), f64(F64_ONE))
        ELSE LET uuid == unwrap_or_default(params.node_uuid)
                 digest == hasher_finish(uuid)
                 scaled == scale_down(digest)
             IN  f64_min(f64_max(scaled, f64(COMPUTED_MIN)), f64(COMPUTED_MAX))

\* cbloom::Filter: the bits a hash sets, out of BloomSize
BloomSize == 4
bloom_bits(hash) == {hash % BloomSize, (hash \div BloomSize) % BloomSize}
maybe_contains(filter, hash) == bloom_bits(hash) \subseteq filter
bloom_insert(filter, hash) == filter \cup bloom_bits(hash)

\* (a value observed once however many requests carry it: a variant used to
\* test the claims)
observe_first_only(histogram, value) ==
    IF value \in DOMAIN histogram THEN histogram ELSE histogram @@ (value :> 1)

\* Histogram::observe: one more observation of the value
observe(histogram, value) ==
    IF value \in DOMAIN histogram
    THEN [histogram EXCEPT ![value] = @ + 1]
    ELSE histogram @@ (value :> 1)

\* What the request to the graph builder meets: no connection, no answer
\* within the timeout, or a response with a status and a body.
ConnectError == [kind |-> "connect error"]
TimedOut == [kind |-> "timeout"]
Response(status, body) == [kind |-> "response", status |-> status, body |-> body]

\* (the status of the response not looked at: a variant used to test the
\* claims)
fetch_graph_from_gb_any_status(stream, basearch, upstream) ==
    IF stream = "" THEN Err("unexpected missing stream")
    ELSE IF basearch = "" THEN Err("unexpected missing basearch")
    ELSE IF upstream.kind # "response" THEN Err("reqwest: " \o upstream.kind)
    ELSE IF ~is_some(upstream.body) THEN Err("reqwest: decode")
    ELSE Ok(upstream.body.val)

\* utils::fetch_graph_from_gb, given what the request meets
fetch_graph_from_gb(stream, basearch, upstream) ==
    IF stream = "" THEN Err("unexpected missing stream")
    ELSE IF basearch = "" THEN Err("unexpected missing basearch")
    ELSE IF upstream.kind # "response" THEN Err("reqwest: " \o upstream.kind)
    ELSE IF upstream.status >= 400 THEN Err("reqwest: status")
    ELSE IF ~is_some(upstream.body) THEN Err("reqwest: decode")
    ELSE Ok(upstream.body.val)

\* policy::throttle_rollouts(cached_graph, wariness), the wariness in
\* millionths and the throttling a fraction of 0.1
throttled_graph(cached_graph, wariness, now) ==
    LET hidden == {index \in 0..(Len(cached_graph.nodes) - 1) :
                      /\ contains_key(cached_graph.nodes[index + 1].metadata, ROLLOUT)
                      /\ LET thr == throttling(cached_graph.nodes[index + 1], now)
                         IN  hides(wariness.micro,
                                   [num |-> thr.num * (F64_ONE \div 10), den |-> thr.den])}
    IN  [cached_graph EXCEPT !.edges = retain(@, LAMBDA e : e[2] \notin hidden)]

\* pe_serve_graph after fetch_graph_from_gb(..).await: the error returned by
\* `?`, or the graph throttled, filtered and sent
pe_graph_fetched(h, fetched, now) ==
    IF ~is_ok(fetched)
    THEN [pc |-> "done", query |-> h.query, wariness |-> h.wariness,
          status |-> InternalServerError, body |-> None, calls |-> <<>>]
    ELSE [pc |-> "done", query |-> h.query, wariness |-> h.wariness,
          status |-> HttpOk,
          body |-> Some(filter_deadends(throttled_graph(fetched.val, h.wariness, now))),
          calls |-> <<"throttle_rollouts", "filter_deadends">>]

(***************************************************************************)
(* The policy engine answering /v1/graph (PolicySpec): worker threads run  *)
(* pe_serve_graph at the same time, sharing the Bloom filter and the       *)
(* metrics; every access to those is a step of its own.                    *)
(***************************************************************************)
PE == "fcos-policy-engine"

WarinessStrings ==
    {None, Some(""), Some("0.5"), Some("-1"), Some("2"), Some("NaN"), Some("inf"),
     Some("-inf"), Some("wary")}
NodeUuids ==
    {None, Some(""), Some("a"), Some("node-112747"), Some("node-125724"),
     Some("node-223"), Some("node-349")}

\* the requests of the first worker are of every kind, those of the others
\* carry no rollout_wariness and a valid scope
PolicyQueries(w) ==
    {[basearch |-> b, stream |-> Some("stable"), rollout_wariness |-> rw,
      node_uuid |-> u] :
        b \in IF w = 1 THEN {None, Some("x86_64")} ELSE {Some("x86_64")},
        rw \in IF w = 1 THEN WarinessStrings ELSE {None},
        u \in NodeUuids}

PolicyInit ==
    /\ NoScraper
    /\ NoGraphOp
    /\ service = [program |-> PE, scope_filter |-> None, scrapers |-> {}]
    /\ handlers = [w \in Workers |-> Idle]
    /\ population = {}
    /\ V1_GRAPH_INCOMING_REQS = 0
    /\ UNIQUE_IDS = 0
    /\ ROLLOUT_WARINESS = <<>>

\* pe_serve_graph is called: pe_record_metrics, V1_GRAPH_INCOMING_REQS.inc()
PERecordIncoming(w, query) ==
    /\ handlers[w].pc = "idle"
    /\ V1_GRAPH_INCOMING_REQS' = V1_GRAPH_INCOMING_REQS + 1
    /\ handlers' = [handlers EXCEPT ![w] =
          [pc |-> IF is_some(query.node_uuid) THEN "maybe_contains" ELSE "serve",
           query |-> query]]
    /\ UNCHANGED <<service, population, UNIQUE_IDS, ROLLOUT_WARINESS, gvars, svars>>

\* pe_record_metrics: the UUID is hashed and looked up in the filter
PEMaybeContains(w) ==
    /\ handlers[w].pc = "maybe_contains"
    /\ LET client_uuid == hasher_finish(handlers[w].query.node_uuid.val)
       IN  handlers' = [handlers EXCEPT ![w] =
              [pc |-> IF maybe_contains(population, client_uuid) THEN "serve" ELSE "insert",
               query |-> @.query, client_uuid |-> client_uuid]]
    /\ UNCHANGED <<service, population, V1_GRAPH_INCOMING_REQS, UNIQUE_IDS,
                   ROLLOUT_WARINESS, gvars, svars>>

\* pe_record_metrics: data.population.insert(client_uuid)
PEInsert(w) ==
    /\ handlers[w].pc = "insert"
    /\ population' = bloom_insert(population, handlers[w].client_uuid)
    /\ handlers' = [handlers EXCEPT ![w].pc = "inc"]
    /\ UNCHANGED <<service, V1_GRAPH_INCOMING_REQS, UNIQUE_IDS, ROLLOUT_WARINESS,
                   gvars, svars>>

\* pe_record_metrics: UNIQUE_IDS.inc()
PEIncUnique(w) ==
    /\ handlers[w].pc = "inc"
    /\ UNIQUE_IDS' = UNIQUE_IDS + 1
    /\ handlers' = [handlers EXCEPT ![w] = [pc |-> "serve", query |-> @.query]]
    /\ UNCHANGED <<service, population, V1_GRAPH_INCOMING_REQS, ROLLOUT_WARINESS,
                   gvars, svars>>

\* pe_serve_graph after pe_record_metrics, up to fetch_graph_from_gb(..).await:
\* the scope is validated, the wariness computed and observed
PEServe(w) ==
    /\ handlers[w].pc = "serve"
    /\ LET query == handlers[w].query
           scope == validate_scope(query.basearch, query.stream, service.scope_filter)
           wariness == compute_wariness(query)
       IN  IF ~is_ok(scope)
           THEN /\ handlers' = [handlers EXCEPT ![w] =
                      [pc |-> "done", query |-> query, status |-> BadRequest]]
                /\ UNCHANGED ROLLOUT_WARINESS
           ELSE /\ handlers' = [handlers EXCEPT ![w] =
                      [pc |-> "fetch", query |-> query, wariness |-> wariness]]
                /\ ROLLOUT_WARINESS' = observe(ROLLOUT_WARINESS, wariness)
    /\ UNCHANGED <<service, population, V1_GRAPH_INCOMING_REQS, UNIQUE_IDS,
                   gvars, svars>>

\* the graph served by the graph builder: a rollout that ramps from 0 over
\* two minutes from time 120, and a release after it
UpstreamGraph ==
    throttle_graph(RolloutStrings(Some("120"), Some("0"), Some("2")), PlainNode)
UpstreamOutcomes ==
    {ConnectError, TimedOut}
    \cup {Response(status, body) :
            status \in {HttpOk, NotFound, InternalServerError},
            body \in {Some(UpstreamGraph), None}}
PolicyTimes == {150}

\* fetch_graph_from_gb(..).await resolves: the graph builder has answered, or
\* the request has failed; the rest of pe_serve_graph runs
PEFetched(w, upstream, now) ==
    /\ handlers[w].pc = "fetch"
    /\ LET query == handlers[w].query
           fetched == fetch_graph_from_gb(unwrap_or_default(query.stream),
                                          unwrap_or_default(query.basearch), upstream)
       IN  handlers' = [handlers EXCEPT ![w] =
              pe_graph_fetched(@, fetched, now) @@ [upstream |-> upstream]]
    /\ UNCHANGED <<service, population, V1_GRAPH_INCOMING_REQS, UNIQUE_IDS,
                   ROLLOUT_WARINESS, gvars, svars>>

PolicyNext ==
    \/ \E w \in Workers : \E query \in PolicyQueries(w) : PERecordIncoming(w, query)
    \/ \E w \in Workers : PEMaybeContains(w)
    \/ \E w \in Workers : PEInsert(w)
    \/ \E w \in Workers : PEIncUnique(w)
    \/ \E w \in Workers : PEServe(w)
    \/ \E w \in Workers, upstream \in UpstreamOutcomes, now \in PolicyTimes :
          PEFetched(w, upstream, now)

PolicySpec == PolicyInit /\ [][PolicyNext]_vars

\* the handlers that have computed a wariness
computed == {w \in Workers : "wariness" \in DOMAIN handlers[w]}

\* the rollout_wariness strings of the requests that parse as a float, with
\* the value in millionths that clamping them to [0, 1] gives
ClampedMeaning ==
    (Some("0.5") :> 500000) @@ (Some("-1") :> 0) @@ (Some("2") :> 1000000)
    @@ (Some("NaN") :> 0) @@ (Some("inf") :> 1000000) @@ (Some("-inf") :> 0)

\* C25: the wariness a handler computes is a number between 0 and 1; when
\* rollout_wariness parses as a float (negative, above 1, infinite or NaN
\* included) it is that value clamped to [0, 1] whatever node_uuid is;
\* otherwise it lies between 0.000001 and 1.
C25_WarinessWithinRange ==
    \A w \in computed :
        LET query == handlers[w].query
            wariness == handlers[w].wariness
        IN  /\ wariness.kind = "finite"
            /\ wariness.micro >= 0
            /\ wariness.micro <= 1000000
            /\ query.rollout_wariness \in DOMAIN ClampedMeaning
                  => wariness.micro = ClampedMeaning[query.rollout_wariness]
            /\ query.rollout_wariness \notin DOMAIN ClampedMeaning
                  => wariness.micro >= 1

\* C25 witness: requests with a NaN, an infinite and an unparseable
\* rollout_wariness, with a node_uuid, have been given a wariness.
C25_Witness ==
    /\ \E w \in computed :
          /\ handlers[w].query.rollout_wariness \in {Some("NaN"), Some("inf"), Some("-1")}
          /\ is_some(handlers[w].query.node_uuid)
    /\ \E w \in computed :
          /\ handlers[w].query.rollout_wariness \in {None, Some("wary"), Some("")}
          /\ handlers[w].query.node_uuid = Some("node-112747")
          /\ handlers[w].wariness = f64(1)

\* C26 (as stated): a request with no parseable rollout_wariness and no
\* node_uuid is given the minimum wariness, 0.000001.
C26_AbsentUuidGetsMinimum ==
    \A w \in computed :
        /\ handlers[w].query.rollout_wariness \notin DOMAIN ClampedMeaning
        /\ handlers[w].query.node_uuid = None
        => handlers[w].wariness = f64(1)

received_uuids ==
    {handlers[w].query.node_uuid.val :
        w \in {v \in Workers : /\ handlers[v].pc # "idle"
                               /\ is_some(handlers[v].query.node_uuid)}}

\* C30 (as stated): unique_uuids_total never exceeds the number of distinct
\* node_uuid values received.
C30_UniqueCountedOnce == UNIQUE_IDS <= Cardinality(received_uuids)

\* how many observations of a value the histogram holds
observations(value) ==
    IF value \in DOMAIN ROLLOUT_WARINESS THEN ROLLOUT_WARINESS[value] ELSE 0

\* C31: the rollout_wariness histogram holds exactly one observation for each
\* request that has reached the fetch from the graph builder, of that
\* request's wariness, from the moment the fetch starts and whether the fetch
\* then succeeds or fails; requests that have not reached it are not observed.
C31_ObservedOnceBeforeFetch ==
    \A value \in DOMAIN ROLLOUT_WARINESS \cup {handlers[w].wariness : w \in computed} :
        observations(value) = Cardinality({w \in computed : handlers[w].wariness = value})

\* C31 witness: two requests with the same wariness were observed twice, one
\* answered 200, the other answered with a server error.
C31_Witness ==
    \E w1 \in computed, w2 \in computed :
        /\ w1 # w2
        /\ handlers[w1].wariness = handlers[w2].wariness
        /\ handlers[w1].pc = "done" /\ handlers[w1].status = InternalServerError
        /\ handlers[w2].pc = "done" /\ handlers[w2].status = HttpOk
        /\ observations(handlers[w1].wariness) = 2

\* the requests whose fetch from the graph builder has resolved
fetched_handlers == {w \in Workers : "upstream" \in DOMAIN handlers[w]}

\* whether the graph builder answered with a success status and a graph
upstream_served(upstream) ==
    /\ upstream.kind = "response"
    /\ upstream.status = 200
    /\ upstream.body # None

\* C33: a request whose fetch from the graph builder failed (no connection,
\* timeout, error status, or a body that is no graph) is answered with a
\* server error, carries no graph, and nothing was throttled or filtered for
\* it; a request whose fetch succeeded is answered 200 with a graph.
C33_FailedFetchIsServerError ==
    \A w \in fetched_handlers :
        IF upstream_served(handlers[w].upstream)
        THEN handlers[w].status = 200 /\ handlers[w].body # None
        ELSE /\ handlers[w].status = 500
             /\ handlers[w].body = None
             /\ handlers[w].calls = <<>>

\* C33 witness: one request met a timeout and another an error status with
\* a graph in the body; both are answered.
C33_Witness ==
    \E w1 \in fetched_handlers, w2 \in fetched_handlers :
        /\ handlers[w1].upstream = TimedOut
        /\ handlers[w2].upstream = Response(InternalServerError, Some(UpstreamGraph))
        /\ handlers[w1].status = 500
        /\ handlers[w2].status = 500

(***************************************************************************)
(* The scrapers and their gauges over time (MetricsSpec): the scraper of   *)
(* fcos-graph-builder, or two of dumnati's scrapers in one process, while  *)
(* the clock advances.                                                     *)
(***************************************************************************)
GaugeScrapers == 2
MaxClock == 2

MetricsInit == ScrapersConstructed(GaugeScrapers)

\* time passes
ClockAdvance ==
    /\ clock < MaxClock
    /\ clock' = clock + 1
    /\ UNCHANGED <<program, started, ticks, timers, inflight, graphs, oci_graphs, graph,
                   UPSTREAM_SCRAPES, CACHED_GRAPH_REQUESTS, reply, lastGood, lastOutcome,
                   LAST_REFRESH, GRAPH_FINAL_EDGES, GRAPH_FINAL_RELEASES,
                   version_digests_map, gvars, wvars>>

MetricsNext ==
    \/ \E id \in Scrapers : Start(id)
    \/ \E id \in Scrapers : HandleRefreshTick(id)
    \/ \E id \in Scrapers : FetchResolves(id)
    \/ \E id \in Scrapers : TimerElapses(id)
    \/ ClockAdvance

MetricsSpec == MetricsInit /\ [][MetricsNext]_vars

\* the label values under which the gauges of a scraper's scopes are kept
gauge_labels(id) ==
    IF program = GB
    THEN {gauge_label(arch, id, oci) : arch \in gb_arches, oci \in BOOLEAN}
    ELSE {<<>>}

\* the value a gauge shows under label values, None when it shows none
gauge_at(gauge, label) == IF label \in DOMAIN gauge THEN Some(gauge[label]) ELSE None

\* the numbers of nodes and of edges of the graph a scraper caches for the
\* scope of a label
cached_counts(id, label) ==
    IF program = GB
    THEN LET bytes == IF label[3] = "oci" THEN oci_graphs[id][label[1]]
                      ELSE graphs[id][label[1]]
         IN  [releases |-> Len(bytes[1].json), edges |-> Len(bytes[2].json)]
    ELSE [releases |-> Len(graph[id].nodes), edges |-> Len(graph[id].edges)]

\* the gauges of a scraper's scopes show what the scraper caches
gauges_match_cache(id) ==
    \A label \in gauge_labels(id) :
        /\ gauge_at(GRAPH_FINAL_EDGES, label) = Some(cached_counts(id, label).edges)
        /\ gauge_at(GRAPH_FINAL_RELEASES, label) = Some(cached_counts(id, label).releases)

\* what the three gauges show for a scraper's scopes
gauges_of(id) ==
    [label \in gauge_labels(id) |->
        <<gauge_at(LAST_REFRESH, label), gauge_at(GRAPH_FINAL_EDGES, label),
          gauge_at(GRAPH_FINAL_RELEASES, label)>>]

\* a step in which a refresh of scraper id succeeds, as an action
RefreshSucceeds(id) == RefreshFinishes(id) /\ lastOutcome'[id] = "ok"

\* C32 (as stated): once a refresh of a scraper has succeeded, the
\* graph_final_edges and graph_final_releases gauges of its scopes equal the
\* numbers of edges and nodes of the graph it caches for the scope; a
\* successful refresh sets last_refresh_timestamp to its time, and no other
\* step, a failed tick included, changes the gauges of the scraper's scopes.
C32_GaugesFollowCache ==
    [][\A id \in Scrapers :
          /\ lastGood'[id] # None => gauges_match_cache(id)'
          /\ IF RefreshSucceeds(id)
             THEN \A label \in gauge_labels(id) :
                     gauge_at(LAST_REFRESH, label)' = Some(clock)
             ELSE gauges_of(id)' = gauges_of(id)]_vars

\* The same for fcos-graph-builder alone, whose gauges carry the scope.
C32_LabelledGaugesFollowCache ==
    [][program = GB => \A id \in Scrapers :
          /\ lastGood'[id] # None => gauges_match_cache(id)'
          /\ IF RefreshSucceeds(id)
             THEN \A label \in gauge_labels(id) :
                     gauge_at(LAST_REFRESH, label)' = Some(clock)
             ELSE gauges_of(id)' = gauges_of(id)]_vars

(***************************************************************************)
(* throttle_rollouts over rollouts whose start_epoch and duration_minutes  *)
(* reach the ends of their integer types (RampSpec).  The sum and the      *)
(* difference that overflow an i64 panic in a build with overflow checks   *)
(* and wrap around in a build without; the cast `as i64` wraps in both.    *)
(***************************************************************************)
\* start_epoch strings: close to the least and to the greatest i64, and 120
FarEpochStrings ==
    {Some(int_to_string(I64_MIN + 48)), Some("120"), Some(int_to_string(I64_MAX - 47))}
\* duration_minutes strings: 1, 2, then the greatest duration whose seconds
\* fit an i64 and the one after it, the greatest whose seconds fit a u64 and
\* the one after it
LongDurationStrings ==
    {Some("1"), Some("2"),
     Some(nat_to_string(I64_MAX \div 60)), Some(nat_to_string(I64_MAX \div 60 + 1)),
     Some(nat_to_string(U64_MAX \div 60)), Some(nat_to_string(U64_MAX \div 60 + 1))}
UnitValueStrings == {Some("0"), Some("0.5"), Some("1")}
RampTimes == {0, 40, 60, 100, 150, 300}

RampInit ==
    /\ NoScraper
    /\ NoRequest
    /\ releases = <<>>
    /\ updates = [stream |-> "testing", releases |-> <<>>]
    /\ \E e \in FarEpochStrings, v \in UnitValueStrings, d \in LongDurationStrings :
          cur = Some(throttle_graph(RolloutStrings(e, v, d), PlainNode))
    /\ op = [name |-> "none"]

\* throttle_rollouts returns: always without overflow, and with the
\* wrapped-around values in a build without overflow checks
ThrottleReturns(client_wariness, now) ==
    /\ op.name = "none"
    /\ ThrottleRollouts(client_wariness, now)

\* throttle_rollouts panics on an overflow, in a build with overflow checks
ThrottlePanics(client_wariness, now) ==
    /\ op.name = "none"
    /\ is_some(cur)
    /\ \E i \in 1..Len(cur.val.nodes) :
          /\ contains_key(cur.val.nodes[i].metadata, ROLLOUT)
          /\ throttling_overflows(cur.val.nodes[i], now)
    /\ op' = [name |-> "panic", wariness |-> client_wariness, now |-> now]
    /\ UNCHANGED <<releases, updates, cur, svars, wvars>>

RampNext ==
    \/ \E w \in Wariness, now \in RampTimes : ThrottleReturns(w, now)
    \/ \E w \in Wariness, now \in RampTimes : ThrottlePanics(w, now)

RampSpec == RampInit /\ [][RampNext]_vars

\* every rollout node of the graph has a start_value from 0 to 1
unit_start_values(g) ==
    \A i \in rollouts_of(g) :
        /\ rollout_start_value(g.nodes[i + 1]) >= 0
        /\ rollout_start_value(g.nodes[i + 1]) <= 10

\* computing the throttling of some rollout node of the graph overflows
overflows_at(g, now) ==
    \E i \in rollouts_of(g) : throttling_overflows(g.nodes[i + 1], now)

\* C37 (as stated): for a graph whose rollout nodes have start_value in
\* [0, 1] and a fixed wariness, an edge throttle_rollouts retains at a time
\* t1 is retained at every later time t2.
C37_VisibilityGrowsWithTime ==
    [][(op'.name = "throttle_rollouts" /\ unit_start_values(cur.val)) =>
          \A later \in {t \in RampTimes : t >= op'.now} :
              edge_set(cur'.val)
                  \subseteq edge_set(throttle_rollouts(cur.val, op'.wariness, later))]_vars

\* The same for the evaluations in which nothing overflows.
C37_GrowsWithoutOverflow ==
    [][(op'.name = "throttle_rollouts" /\ unit_start_values(cur.val)) =>
          \A later \in {t \in RampTimes \cup ThrottleTimes : t >= op'.now} :
              (~overflows_at(cur.val, op'.now) /\ ~overflows_at(cur.val, later)) =>
                  edge_set(cur'.val)
                      \subseteq edge_set(throttle_rollouts(cur.val, op'.wariness, later))]_vars

\* C38 (as stated): for every start_epoch and duration_minutes of a rollout
\* node, start_epoch + 60 * max(duration_minutes, 1) neither overflows nor
\* wraps, and the end throttle_rollouts computes is greater than start_epoch.
C38_RolloutEndNeverOverflows ==
    [][op'.name \in {"throttle_rollouts", "panic"} =>
          \A i \in rollouts_of(cur.val) :
              is_some(rollout_minutes(cur.val.nodes[i + 1])) =>
                  /\ op'.name # "panic"
                  /\ in_i64(rollout_end_exact(cur.val.nodes[i + 1]))
                  /\ rollout_end(cur.val.nodes[i + 1])
                        > rollout_start_epoch(cur.val.nodes[i + 1])]_vars

(***************************************************************************)
(* The rollout marker (MarkerSpec): graphs of three nodes whose second and *)
(* third nodes carry the rollout key with the value "true", with another   *)
(* value, or not at all, as a graph deserialized from the upstream's JSON  *)
(* may; the policy engine throttles them and the assembler's compute_edges *)
(* is applied to their nodes.                                              *)
(***************************************************************************)
RolloutMarkers == {None, Some("true"), Some("false"), Some("")}
MarkerStrings ==
    {[PlainNode EXCEPT !.start_epoch = e, !.start_value = v, !.duration_minutes = d] :
        e \in {None, Some("120")}, v \in {Some("0"), Some("0.5")},
        d \in {None, Some("2")}}

\* the node at position index whose rollout key has the value marker
marker_node(index, marker, params) ==
    LET node == throttle_node(index, params)
    IN  [node EXCEPT !.metadata = insert_some(@, ROLLOUT, marker)]

marker_graph(second, third, params) ==
    [nodes |-> <<throttle_node(0, PlainNode), marker_node(1, second, params),
                 marker_node(2, third, params)>>,
     edges |-> <<<<0, 1>>, <<0, 2>>, <<1, 2>>>>]

MarkerInit ==
    /\ NoScraper
    /\ NoRequest
    /\ releases = <<>>
    /\ updates = [stream |-> "testing", releases |-> <<>>]
    /\ \E second \in RolloutMarkers \ {None}, third \in RolloutMarkers,
          params \in MarkerStrings :
          cur = Some(marker_graph(second, third, params))
    /\ op = [name |-> "none"]

\* Graph::compute_edges over the nodes of the graph
ComputeEdges ==
    /\ op.name = "none"
    /\ is_some(cur)
    /\ cur' = Some([cur.val EXCEPT !.edges = compute_edges(cur.val.nodes).val])
    /\ op' = [name |-> "compute_edges"]
    /\ UNCHANGED <<releases, updates, svars, wvars>>

MarkerNext ==
    \/ \E w \in Wariness, now \in ThrottleTimes : ServeThrottled(w, now)
    \/ ComputeEdges

MarkerSpec == MarkerInit /\ [][MarkerNext]_vars

\* the graph with the rollout key dropped from the nodes where its value is
\* not "true"
true_rollouts_only(g) ==
    [g EXCEPT !.nodes =
        [i \in 1..Len(g.nodes) |->
            IF get(g.nodes[i].metadata, ROLLOUT) \notin {None, Some("true")}
            THEN [g.nodes[i] EXCEPT !.metadata = remove(@, ROLLOUT)]
            ELSE g.nodes[i]]]

\* C39 (as stated): only the nodes whose rollout key equals "true" are
\* treated as rollouts: throttle_rollouts retains every edge towards a node
\* whose rollout key has another value, and compute_edges gives the edges
\* it gives when such a key is absent.
C39_OnlyTrueMarksRollout ==
    [][/\ op'.name = "throttle_rollouts" =>
             \A k \in 1..Len(cur.val.edges) :
                 get(cur.val.nodes[cur.val.edges[k][2] + 1].metadata, ROLLOUT)
                     \notin {None, Some("true")}
                 => cur.val.edges[k] \in edge_set(cur'.val)
       /\ op'.name = "compute_edges" =>
             cur'.val.edges = compute_edges(true_rollouts_only(cur.val).nodes).val]_vars

\* The part of C39 about throttle_rollouts alone.
C39_ThrottleSparesOtherValues ==
    [][op'.name = "throttle_rollouts" =>
          edge_set(cur'.val) =
              edge_set(throttle_rollouts(true_rollouts_only(cur.val),
                                         op'.wariness, op'.now))]_vars

\* The part of C39 about compute_edges alone.
C39_ComputeEdgesSparesOtherValues ==
    [][op'.name = "compute_edges" =>
          cur'.val.edges = compute_edges(true_rollouts_only(cur.val).nodes).val]_vars

\* What the code does: every node that has the rollout key, whatever its
\* value, is throttled as a rollout and is an edge target as a rollout.
C39_KeyPresenceMarksRollout ==
    [][/\ op'.name = "throttle_rollouts" =>
             \A k \in 1..Len(cur.val.edges) :
                 cur.val.edges[k] \in edge_set(cur'.val)
                 <=> ~(/\ contains_key(cur.val.nodes[cur.val.edges[k][2] + 1].metadata,
                                       ROLLOUT)
                       /\ hides(op'.wariness,
                                throttling(cur.val.nodes[cur.val.edges[k][2] + 1],
                                           op'.now)))
       /\ op'.name = "compute_edges" =>
             \A t \in rollouts_of(cur.val) \ barriers_of(cur.val) :
                 t > 0 => <<t - 1, t>> \in edge_set(cur'.val)]_vars

(***************************************************************************)
(* The workaround for the boot images shipped with a wrong container       *)
(* digest (fcos-graph-builder/src/workaround_issue_2066.rs).  A release    *)
(* has a version, commits and oci_images, None or a Vec of images with an  *)
(* architecture and a digest_ref "$oci_image_name@$digest"; the digests    *)
(* map is a HashMap from version to a HashMap from architecture to a good  *)
(* and a bad digest.                                                       *)
(***************************************************************************)
RECURSIVE find(_, _, _)
\* the position of the first occurrence of the character pat in s at or
\* after position i, 0 when there is none
find(s, pat, i) ==
    IF i > Len(s) THEN 0
    ELSE IF SubSeq(s, i, i) = pat THEN i
    ELSE find(s, pat, i + 1)

\* str::split_once with a character pattern
split_once(s, delimiter) ==
    LET at == find(s, delimiter, 1)
    IN  IF at = 0 THEN None
        ELSE Some(<<SubSeq(s, 1, at - 1), SubSeq(s, at + 1, Len(s))>>)

\* DigestsMapper::get_bad_hash_for_version_and_arch
get_bad_hash_for_version_and_arch(digests, version, arch) ==
    IF contains_key(digests, version) /\ contains_key(digests[version], arch)
    THEN Some(digests[version][arch].bad)
    ELSE None

\* the body of the loop over the images of an entry: Err when the unwrap of
\* split_once's None panics
patch_oci_release(digests, version, oci_release) ==
    LET bad_hash == get_bad_hash_for_version_and_arch(digests, version,
                                                      oci_release.architecture)
        parts == split_once(oci_release.digest_ref, "@")
    IN  IF is_some(bad_hash)
        THEN IF is_some(parts)
             THEN Ok([oci_release EXCEPT !.digest_ref =
                          parts.val[1] \o "@" \o bad_hash.val])
             ELSE Err("called Option::unwrap() on a None value")
        ELSE Ok(oci_release)

RECURSIVE patch_oci_images(_, _, _, _)
\* for oci_release in releases_oci.iter_mut(), from position k on
patch_oci_images(digests, version, releases_oci, k) ==
    IF k > Len(releases_oci) THEN [images |-> releases_oci, panicked |-> FALSE]
    ELSE LET patched == patch_oci_release(digests, version, releases_oci[k])
         IN  IF is_ok(patched)
             THEN patch_oci_images(digests, version,
                                   [releases_oci EXCEPT ![k] = patched.val], k + 1)
             ELSE [images |-> releases_oci, panicked |-> TRUE]

RECURSIVE patch_entries(_, _, _)
\* for entry in releases.iter_mut(), from position k on
patch_entries(digests, entries, k) ==
    IF k > Len(entries) THEN [releases |-> entries, panicked |-> FALSE]
    ELSE IF is_some(entries[k].oci_images)
    THEN LET patched == patch_oci_images(digests, entries[k].version,
                                         entries[k].oci_images.val, 1)
             entry == [entries[k] EXCEPT !.oci_images = Some(patched.images)]
         IN  IF patched.panicked
             THEN [releases |-> [entries EXCEPT ![k] = entry], panicked |-> TRUE]
             ELSE patch_entries(digests, [entries EXCEPT ![k] = entry], k + 1)
    ELSE patch_entries(digests, entries, k + 1)

\* (the last entry patched like the others: a variant used to test the claims)
fix_releases_with_last(digests, rels) == patch_entries(digests, rels, 1)

\* DigestsMapper::fix_releases: the Vec as the function leaves it, and
\* whether it panicked on the way
fix_releases(digests, rels) ==
    IF Len(rels) = 0 THEN [releases |-> rels, panicked |-> FALSE]
    ELSE LET last_release == rels[Len(rels)]
             patched == patch_entries(digests, SubSeq(rels, 1, Len(rels) - 1), 1)
         IN  IF patched.panicked THEN patched
             ELSE [releases |-> Append(patched.releases, last_release),
                   panicked |-> FALSE]

(***************************************************************************)
(* fix_releases alone (FixSpec): up to MaxReleases releases, each without  *)
(* images, with an image for one or for two architectures, with a          *)
(* digest_ref that has no '@' or one that has two, and a digests map that  *)
(* is empty or names some of their versions and architectures.             *)
(***************************************************************************)
OciImage(arch, digest_ref) == [architecture |-> arch, digest_ref |-> digest_ref]

\* the oci_images a release at position i (0-based) may have
OciImagesAt(i) ==
    {None,
     Some(<<OciImage("x86_64", "q/fcos@sha256:a" \o nat_to_string(i))>>),
     Some(<<OciImage("x86_64", "q/fcos@sha256:a" \o nat_to_string(i)),
            OciImage("aarch64", "q/fcos@sha256:c" \o nat_to_string(i))>>),
     Some(<<OciImage("x86_64", "q/fcos")>>),
     Some(<<OciImage("aarch64", "q/fcos@sha256:c" \o nat_to_string(i)),
            OciImage("x86_64", "u@q/fcos@sha256:a" \o nat_to_string(i))>>)}

OciRelease(i, images) ==
    [version |-> release_version(i),
     commits |-> <<[architecture |-> "x86_64",
                    checksum |-> "commit" \o nat_to_string(i)]>>,
     oci_images |-> images]

OciReleaseLists ==
    UNION {{[i \in 1..n |-> OciRelease(i - 1, images[i])] :
               images \in {f \in [1..n -> UNION {OciImagesAt(i) : i \in 0..(n - 1)}] :
                              \A i \in 1..n : f[i] \in OciImagesAt(i - 1)}} :
           n \in 0..MaxReleases}

GoodBadDigests(good, bad) == [good |-> good, bad |-> bad]

DigestsMaps ==
    {<<>>,
     release_version(0) :> ("x86_64" :> GoodBadDigests("sha256:a0", "sha256:b0")),
     release_version(1) :> ("aarch64" :> GoodBadDigests("sha256:c1", "sha256:d1")),
     (release_version(0) :> ("x86_64" :> GoodBadDigests("sha256:a0", "sha256:b0")
                             @@ "aarch64" :> GoodBadDigests("sha256:c0", "sha256:d0")))
        @@ (release_version(2) :> ("x86_64" :> GoodBadDigests("sha256:a2", "sha256:b2")))}

FixInit ==
    /\ NoRequest
    /\ \E digests \in DigestsMaps, rels \in OciReleaseLists :
          /\ NoScraperBut(digests)
          /\ releases = rels
    /\ updates = [stream |-> "testing", releases |-> <<>>]
    /\ cur = None
    /\ op = [name |-> "none"]

\* fix_releases returns
FixReleases ==
    /\ op.name = "none"
    /\ ~fix_releases(version_digests_map, releases).panicked
    /\ releases' = fix_releases(version_digests_map, releases).releases
    /\ op' = [name |-> "fix_releases", input |-> releases]
    /\ UNCHANGED <<updates, cur, svars, wvars>>

\* fix_releases panics on a digest_ref without '@'
FixReleasesPanics ==
    /\ op.name = "none"
    /\ fix_releases(version_digests_map, releases).panicked
    /\ releases' = fix_releases(version_digests_map, releases).releases
    /\ op' = [name |-> "panic", input |-> releases]
    /\ UNCHANGED <<updates, cur, svars, wvars>>

FixNext == FixReleases \/ FixReleasesPanics

FixSpec == FixInit /\ [][FixNext]_vars

\* the digests map has a bad digest for the version and the architecture
in_digests_map(version, arch) ==
    is_some(get_bad_hash_for_version_and_arch(version_digests_map, version, arch))

\* the image is the image old with the digest after the '@' of its
\* digest_ref replaced by the bad digest of the version and architecture
digest_replaced(old, image, version) ==
    /\ image.architecture = old.architecture
    /\ split_once(image.digest_ref, "@") =
          Some(<<split_once(old.digest_ref, "@").val[1],
                 version_digests_map[version][old.architecture].bad>>)

\* C40: fix_releases preserves the number and the order of the releases,
\* leaves the last release and an empty list as they are, and in every
\* other release changes nothing but the digest after the '@' of the
\* digest_ref of the images whose (version, architecture) is in the digests
\* map: version, commits and the other images stay as they were.
C40_FixReleasesFrame ==
    op.name = "fix_releases" =>
        /\ Len(releases) = Len(op.input)
        /\ Len(op.input) > 0 => releases[Len(releases)] = op.input[Len(op.input)]
        /\ \A i \in 1..Len(op.input) :
              /\ releases[i].version = op.input[i].version
              /\ releases[i].commits = op.input[i].commits
              /\ is_some(releases[i].oci_images) <=> is_some(op.input[i].oci_images)
              /\ is_some(op.input[i].oci_images) =>
                    LET old == op.input[i].oci_images.val
                        new == releases[i].oci_images.val
                    IN  /\ Len(new) = Len(old)
                        /\ \A j \in 1..Len(old) :
                              IF i < Len(op.input)
                                 /\ in_digests_map(op.input[i].version, old[j].architecture)
                              THEN digest_replaced(old[j], new[j], op.input[i].version)
                              ELSE new[j] = old[j]

\* fix_releases has returned a list of three or more releases in which it replaced
\* a digest in a release that is not the last, left alone an image of such
\* a release that the map does not name, and left alone the last release,
\* an image of which the map names
C40_Witness ==
    /\ op.name = "fix_releases"
    /\ Len(releases) > 2
    /\ \E i \in 1..(Len(releases) - 1) : releases[i] # op.input[i]
    /\ \E i \in 1..(Len(releases) - 1) :
          /\ is_some(releases[i].oci_images)
          /\ \E j \in 1..Len(releases[i].oci_images.val) :
                ~in_digests_map(releases[i].version,
                                releases[i].oci_images.val[j].architecture)
    /\ is_some(releases[Len(releases)].oci_images)
    /\ \E j \in 1..Len(releases[Len(releases)].oci_images.val) :
          in_digests_map(releases[Len(releases)].version,
                         releases[Len(releases)].oci_images.val[j].architecture)

\* fix_releases fails to return only by the unwrap of split_once: when a
\* release that is not the last has an image the digests map names whose
\* digest_ref has no '@'.
C40_PanicsOnlyWithoutSeparator ==
    op.name \in {"fix_releases", "panic"} =>
        (op.name = "panic" <=>
            \E i \in 1..(Len(op.input) - 1) :
                /\ is_some(op.input[i].oci_images)
                /\ \E j \in 1..Len(op.input[i].oci_images.val) :
                      /\ in_digests_map(op.input[i].version,
                                        op.input[i].oci_images.val[j].architecture)
                      /\ split_once(op.input[i].oci_images.val[j].digest_ref, "@") = None)
====
